---- MODULE Spec2Model ----
(***************************************************************************)
(* Payment routing and hash-chained ledger (src/pipes).                    *)
(*                                                                         *)
(* Representation of values.                                               *)
(*   Decimal      an integer count of mills (1/1000 of a currency unit),   *)
(*                so 0.01 is 10 and 0.005 is 5; products of an amount and  *)
(*                a rate are rationals n/d handed to quantize.             *)
(*   "d.dd" text  the result of f"{x:.2f}": an integer count of cents.     *)
(*   rate, share  integers in 1/1000 (0.01 is 10, 0.5 is 500).             *)
(*   datetime     [utc, offset]; its isoformat text is <<local, offset>>.  *)
(*   dict         a function from key strings to value strings.            *)
(*   JSON text    [kind, pairs]: an object text with its pairs in written  *)
(*                order, the empty text, or a text that is not JSON.       *)
(*   SHA-256      collision free: the digest of prev_hash || payload is    *)
(*                the sequence prev_hash extended by payload.              *)
(***************************************************************************)
EXTENDS Integers, Sequences, FiniteSets, TLC

VARIABLES
    ledger_events,  \* table ledger_events, committed rows in primary-key order
    balances,       \* table balances, committed: account -> "d.dd" text
    receipts,       \* table receipts, committed: its set of rows
    accounts,       \* table accounts, committed: account_id -> row
    fee_rate,       \* RouterConfig.fee_rate of the router
    safety_share,   \* RouterConfig.safety_share of the router
    pc,             \* position of each caller inside route / apply
    local,          \* locals of each caller's running call
    txn,            \* each caller's open sqlite transaction (its private view)
    writer,         \* the caller holding the database write lock, 0 if none
    ret,            \* what each caller's last call returned or raised
    clock,          \* the wall clock read by datetime.now
    next_uuid,      \* number of uuid4 values drawn so far
    call,           \* the last call of a pure policy function and its result
    registry,       \* AuthRegistry._secrets: account -> secret
    authorizer,     \* whether the router was built with an authorizer
    request,        \* the argument of each caller's last call of route
    mem_events,     \* Ledger._events of the in-memory ledger
    mem_balances,   \* Ledger._balances of the in-memory ledger: account -> Decimal
    _safety_vault,  \* FeeldEngine._safety_vault, in cents
    _growth_vault,  \* FeeldEngine._growth_vault, in cents
    _transaction_history    \* FeeldEngine._transaction_history

\* The fields of the FeeldEngine object.
engine_vars == <<_safety_vault, _growth_vault, _transaction_history>>

vars == <<ledger_events, balances, receipts, accounts, fee_rate, safety_share,
          pc, local, txn, writer, ret, clock, next_uuid, call,
          registry, authorizer, request, mem_events, mem_balances,
          engine_vars>>

(***************************************************************************)
(* Bounds of the model.                                                    *)
(***************************************************************************)
MaxEvents == 3
MaxRouted == 3
MaxMills == 130
MaxSends == 3

(***************************************************************************)
(* Money and decimal arithmetic (models.py, serialization.py).             *)
(***************************************************************************)
DEFAULT_SCALE == 10

DEFAULT_CURRENCY == "USD"

Abs(x) == IF x < 0 THEN -x ELSE x

\* Mutant of quantize: ROUND_DOWN, the cents below.
quantize_trunc(n, d) ==
    LET q == Abs(n) \div (d * DEFAULT_SCALE)
    IN  (IF n < 0 THEN -q ELSE q) * DEFAULT_SCALE

\* Decimal.quantize(DEFAULT_SCALE, ROUND_HALF_UP) of the rational n/d mills
\* (d > 0): the nearest multiple of a cent, ties away from zero.
quantize(n, d) ==
    LET q == (2 * Abs(n) + d * DEFAULT_SCALE) \div (2 * d * DEFAULT_SCALE)
    IN  (IF n < 0 THEN -q ELSE q) * DEFAULT_SCALE

\* f"{value:.2f}" of a Decimal: two fractional digits under the default
\* context rounding ROUND_HALF_EVEN; the text is its count of cents.
normalize_decimal(value) ==
    LET a == Abs(value)
        q == a \div DEFAULT_SCALE
        r == a % DEFAULT_SCALE
        c == IF 2 * r > DEFAULT_SCALE \/ (2 * r = DEFAULT_SCALE /\ q % 2 = 1)
             THEN q + 1 ELSE q
    IN  IF value < 0 THEN -c ELSE c

\* Decimal(text) of a "d.dd" text.
to_decimal(text) == text * DEFAULT_SCALE

Money(amount, currency) == [amount |-> amount, currency |-> currency]

\* Money.__post_init__ raises on a negative amount.
MoneyRaises(amount) == amount < 0

\* Mutant of MoneySubRaises: only the currencies are checked.
MoneySubRaisesCurrencyOnly(a, b) == a.currency # b.currency

\* Money.__sub__: currency check, then Money(_quantize(a - b)).
MoneySubRaises(a, b) ==
    a.currency # b.currency \/ MoneyRaises(quantize(a.amount - b.amount, 1))

MoneySub(a, b) == Money(quantize(a.amount - b.amount, 1), a.currency)

\* Money.__add__: currency check, then Money(_quantize(a + b)).
MoneyAddRaises(a, b) ==
    a.currency # b.currency \/ MoneyRaises(quantize(a.amount + b.amount, 1))

MoneyAdd(a, b) == Money(quantize(a.amount + b.amount, 1), a.currency)

(***************************************************************************)
(* Fee and split policies (policies.py).                                   *)
(***************************************************************************)
FeeRaises(rate, amount) ==
    rate < 0 \/ MoneyRaises(quantize(amount.amount * rate, 1000))

compute_fee(rate, amount) ==
    Money(quantize(amount.amount * rate, 1000), amount.currency)

split(share, fee) ==
    LET safety_amount == quantize(fee.amount * share, 1000)
        growth_amount == quantize(fee.amount - safety_amount, 1)
    IN  [raised |-> ~(0 <= share /\ share <= 1000)
                    \/ MoneyRaises(safety_amount)
                    \/ MoneyRaises(growth_amount),
         safety |-> Money(safety_amount, fee.currency),
         growth |-> Money(growth_amount, fee.currency)]

(***************************************************************************)
(* Input values the callers draw from.                                     *)
(***************************************************************************)
safety_vault == "vault:safety"

growth_vault == "vault:growth"

Currencies == {DEFAULT_CURRENCY}

\* Router configurations: the default (1%, 0.5) and fee rates -1%, 2.5%,
\* 100%, 150%, shares 1, 1.1.
FeeRates == {-10, 10, 25, 1000, 1500}

SafetyShares == {500, 1000, 1100}

\* Arguments of the policy functions called on their own.
PolicyRates == {-10, 0, 10, 25, 1000}

PolicyShares == {-100, 0, 300, 500, 1000, 1100}

PolicyAmounts == (0..MaxMills) \cup {500, 990, 100000}

\* Arguments of Money and its arithmetic: amounts -1.00, -0.004, 0, 0.004,
\* 0.005, 1.00, 1.004, 1.005, in two currencies.
MoneyAmounts == {-1000, -4, 0, 4, 5, 1000, 1004, 1005}

MoneyCurrencies == {DEFAULT_CURRENCY, "EUR"}

\* The Money values that can be constructed.
MoneyValues ==
    {Money(a, c) : a \in {x \in MoneyAmounts : ~MoneyRaises(x)},
                   c \in MoneyCurrencies}

Callers == {1, 2}

\* The keys of metadata dicts, in the order sort_keys puts them.
KeyOrder == <<"purpose", "transaction_id", "vault">>

EmptyDict == [k \in {} |-> ""]

EventMetadata == {EmptyDict, [k \in {"purpose", "vault"} |-> "x"]}

(***************************************************************************)
(* JSON texts and dicts (storage.py, the json module).                     *)
(***************************************************************************)
\* The pairs of a dict in sorted key order, as json.dumps(sort_keys=True)
\* writes them.
SortedPairs(d) ==
    LET keys == SelectSeq(KeyOrder, LAMBDA k : k \in DOMAIN d)
    IN  [i \in 1..Len(keys) |-> <<keys[i], d[keys[i]]>>]

serialize_metadata(metadata) ==
    [kind |-> "obj", pairs |-> SortedPairs(metadata)]

\* json.loads of an object text: the last pair of a key wins.
json_loads(text) ==
    LET keys == {text.pairs[i][1] : i \in 1..Len(text.pairs)}
        last(k) == CHOOSE i \in 1..Len(text.pairs) :
                       /\ text.pairs[i][1] = k
                       /\ \A j \in (i + 1)..Len(text.pairs) : text.pairs[j][1] # k
    IN  [k \in keys |-> text.pairs[last(k)][2]]

\* _deserialize_metadata: {} for the empty text, json.loads otherwise, which
\* raises on a text that is not JSON.
deserialize_metadata(payload) ==
    IF payload.kind = "empty"
    THEN [raised |-> FALSE, value |-> EmptyDict]
    ELSE IF payload.kind = "obj"
    THEN [raised |-> FALSE, value |-> json_loads(payload)]
    ELSE [raised |-> TRUE, value |-> EmptyDict]

(***************************************************************************)
(* Dates (datetime).                                                       *)
(***************************************************************************)
now_utc(t) == [utc |-> t, offset |-> 0]

isoformat(dt) == <<dt.utc + dt.offset, dt.offset>>

fromisoformat(text) == [utc |-> text[1] - text[2], offset |-> text[2]]

(***************************************************************************)
(* Hash chain (storage.py).                                                *)
(***************************************************************************)
GENESIS == <<>>

hash_event(prev_hash, payload) == Append(prev_hash, payload)

\* Mutant of event_payload: the amount written with str() instead of .2f.
event_payload_raw(event) ==
    [id |-> event.id,
     created_at |-> isoformat(event.created_at),
     from |-> event.from_account,
     to |-> event.to_account,
     amount |-> event.amount.amount,
     currency |-> event.amount.currency,
     metadata |-> SortedPairs(event.metadata)]

\* _event_payload: the canonical JSON text of an event, one field per key.
event_payload(event) ==
    [id |-> event.id,
     created_at |-> isoformat(event.created_at),
     from |-> event.from_account,
     to |-> event.to_account,
     amount |-> normalize_decimal(event.amount.amount),
     currency |-> event.amount.currency,
     metadata |-> SortedPairs(event.metadata)]

\* The payload verify_chain rebuilds from a stored row.
row_payload(row) ==
    [id |-> row.event_id,
     created_at |-> row.created_at,
     from |-> row.from_account,
     to |-> row.to_account,
     amount |-> row.amount,
     currency |-> row.currency,
     metadata |-> SortedPairs(deserialize_metadata(row.metadata_json).value)]

get_last_hash(rows) ==
    IF Len(rows) = 0 THEN GENESIS ELSE rows[Len(rows)].event_hash

\* The row apply inserts for an event, given the tail hash it read.
event_row(event, prev_hash) ==
    [event_id |-> event.id,
     created_at |-> isoformat(event.created_at),
     from_account |-> event.from_account,
     to_account |-> event.to_account,
     amount |-> normalize_decimal(event.amount.amount),
     currency |-> event.amount.currency,
     metadata_json |-> serialize_metadata(event.metadata),
     prev_hash |-> prev_hash,
     event_hash |-> hash_event(prev_hash, event_payload(event))]

\* Mutant of update_balance: the stored balance is overwritten by the delta.
update_balance_overwrite(bal, account, delta) ==
    [a \in DOMAIN bal \cup {account} |->
        IF a = account THEN normalize_decimal(delta) ELSE bal[a]]

\* Mutant of insert_event: INSERT OR REPLACE under a unique to_account, the
\* row of the same receiver is deleted and the new row appended.
insert_or_replace_event(rows, row) ==
    Append(SelectSeq(rows, LAMBDA r : r.to_account # row.to_account), row)

\* The INSERT of apply on a view of ledger_events: a new row with the next
\* primary key.
insert_event(rows, row) == Append(rows, row)

\* _update_balance on a view of the balances table.
update_balance(bal, account, delta) ==
    IF account \in DOMAIN bal
    THEN [bal EXCEPT ![account] = normalize_decimal(to_decimal(@) + delta)]
    ELSE [a \in DOMAIN bal \cup {account} |->
             IF a = account THEN normalize_decimal(delta) ELSE bal[a]]

\* Mutant of apply_drops: the zero guard is missing.
apply_drops_nothing(event) == FALSE

\* The guard of SqliteLedger.apply: an event of amount 0 is dropped.
apply_drops(event) == event.amount.amount = 0

\* Ledger.apply of the in-memory ledger on its list of events.
ledger_events_after(events, event) ==
    IF event.amount.amount = 0 THEN events ELSE Append(events, event)

\* Ledger.apply of the in-memory ledger on its dict of balances: the
\* sender's entry, then the receiver's, each read with .get(account, 0).
ledger_balances_after(bal, event) ==
    LET get(b, a) == IF a \in DOMAIN b THEN b[a] ELSE 0
        put(b, a, v) == [x \in DOMAIN b \cup {a} |-> IF x = a THEN v ELSE b[x]]
        debited == put(bal, event.from_account,
                       get(bal, event.from_account) - event.amount.amount)
    IN  IF event.amount.amount = 0 THEN bal
        ELSE put(debited, event.to_account,
                 get(debited, event.to_account) + event.amount.amount)

\* SqliteLedger.balance on a view of the balances table.
balance(bal, account) ==
    IF account \in DOMAIN bal THEN to_decimal(bal[account]) ELSE 0

\* Mutant of verify_from: event_hash is checked before prev_hash.
RECURSIVE verify_from_hash_first(_, _, _)
verify_from_hash_first(rows, i, expected_prev) ==
    IF i > Len(rows) THEN <<TRUE, "none">>
    ELSE IF deserialize_metadata(rows[i].metadata_json).raised
    THEN <<FALSE, "raised">>
    ELSE IF rows[i].event_hash # hash_event(rows[i].prev_hash, row_payload(rows[i]))
    THEN <<FALSE, "event_hash mismatch">>
    ELSE IF rows[i].prev_hash # expected_prev
    THEN <<FALSE, "prev_hash mismatch">>
    ELSE verify_from_hash_first(rows, i + 1, rows[i].event_hash)

\* verify_chain over the rows in primary-key order: <<ok, reason>>, or
\* "raised" when json.loads raises on a row's metadata_json.
RECURSIVE verify_from(_, _, _)
verify_from(rows, i, expected_prev) ==
    IF i > Len(rows) THEN <<TRUE, "none">>
    ELSE IF deserialize_metadata(rows[i].metadata_json).raised
    THEN <<FALSE, "raised">>
    ELSE IF rows[i].prev_hash # expected_prev
    THEN <<FALSE, "prev_hash mismatch">>
    ELSE IF rows[i].event_hash # hash_event(rows[i].prev_hash, row_payload(rows[i]))
    THEN <<FALSE, "event_hash mismatch">>
    ELSE verify_from(rows, i + 1, rows[i].event_hash)

verify_chain(rows) == verify_from(rows, 1, GENESIS)

(***************************************************************************)
(* Router (router.py): what route computes before it appends.              *)
(***************************************************************************)
Transaction(id, from_account, to_account, amount, created_at, metadata) ==
    [id |-> id, from_account |-> from_account, to_account |-> to_account,
     amount |-> amount, created_at |-> created_at, metadata |-> metadata]

LedgerEvent(from_account, to_account, amount, metadata) ==
    [from_account |-> from_account, to_account |-> to_account,
     amount |-> amount, metadata |-> metadata]

RouteFee(tx) == compute_fee(fee_rate, tx.amount)

RouteSplit(tx) == split(safety_share, RouteFee(tx))

\* route raises before any append: a policy check or a Money constructor.
RouteRaises(tx) ==
    \/ FeeRaises(fee_rate, tx.amount)
    \/ RouteSplit(tx).raised
    \/ MoneySubRaises(tx.amount, RouteFee(tx))

\* Mutant of RouteEvents: the fee events are appended before the net event.
RouteEventsFeesFirst(tx) ==
    <<LedgerEvent(tx.from_account, safety_vault, RouteSplit(tx).safety,
                  [k \in {"transaction_id", "vault"} |->
                      IF k = "vault" THEN "safety" ELSE tx.id]),
      LedgerEvent(tx.from_account, growth_vault, RouteSplit(tx).growth,
                  [k \in {"transaction_id", "vault"} |->
                      IF k = "vault" THEN "growth" ELSE tx.id]),
      LedgerEvent(tx.from_account, tx.to_account,
                  MoneySub(tx.amount, RouteFee(tx)),
                  [k \in {"transaction_id"} |-> tx.id])>>

\* The three events route appends, in order: net, safety, growth.
RouteEvents(tx) ==
    <<LedgerEvent(tx.from_account, tx.to_account,
                  MoneySub(tx.amount, RouteFee(tx)),
                  [k \in {"transaction_id"} |-> tx.id]),
      LedgerEvent(tx.from_account, safety_vault, RouteSplit(tx).safety,
                  [k \in {"transaction_id", "vault"} |->
                      IF k = "vault" THEN "safety" ELSE tx.id]),
      LedgerEvent(tx.from_account, growth_vault, RouteSplit(tx).growth,
                  [k \in {"transaction_id", "vault"} |->
                      IF k = "vault" THEN "growth" ELSE tx.id])>>

\* `d or None` of a dict d.
OptionalDict(d) == [is_none |-> d = EmptyDict, value |-> d]

Receipt(tx) ==
    [transaction_id |-> tx.id,
     gross_amount |-> tx.amount,
     net_amount |-> MoneySub(tx.amount, RouteFee(tx)),
     fee_amount |-> RouteFee(tx),
     safety_amount |-> RouteSplit(tx).safety,
     growth_amount |-> RouteSplit(tx).growth,
     vault_safety |-> safety_vault,
     vault_growth |-> growth_vault,
     created_at |-> tx.created_at,
     metadata |-> OptionalDict(tx.metadata)]

(***************************************************************************)
(* Auth registry and MAC authorizer (auth.py, serialization.py).           *)
(*   Optional     [is_none, value].                                        *)
(*   signature    a text [mac, flipped, ascii]: the lowercase hex digest   *)
(*                of HMAC-SHA-256 mac = [key, payload] (collision free),   *)
(*                with `flipped` of its nibbles changed, and with a        *)
(*                character outside ASCII put into it when ascii is FALSE. *)
(***************************************************************************)
None == [is_none |-> TRUE, value |-> ""]

Some(value) == [is_none |-> FALSE, value |-> value]

\* canonical_transaction_payload: the JSON text signed, one field per key;
\* the amount goes through normalize_decimal, the date through isoformat.
canonical_transaction_payload(tx) ==
    [id |-> tx.id,
     from |-> tx.from_account,
     to |-> tx.to_account,
     amount |-> normalize_decimal(tx.amount.amount),
     currency |-> tx.amount.currency,
     created_at |-> isoformat(tx.created_at),
     metadata |-> SortedPairs(tx.metadata)]

SignedTransaction(transaction, signature) ==
    [is_signed |-> TRUE, transaction |-> transaction, signature |-> signature,
     key_id |-> None]

\* AuthRegistry.get_secret: dict.get.
get_secret(reg, account) ==
    IF account \in DOMAIN reg THEN Some(reg[account]) ELSE None

\* AuthRegistry.set_secret.
set_secret(reg, account, secret) ==
    [a \in DOMAIN reg \cup {account} |-> IF a = account THEN secret ELSE reg[a]]

\* AuthRegistry.register: `secret or secrets.token_hex(32)`, token being the
\* value token_hex returns.
register(reg, account, secret, token) ==
    set_secret(reg, account,
               IF secret.is_none \/ secret.value = "" THEN token ELSE secret.value)

\* `not secret` of an Optional[str]: None and the empty string.
not_secret(secret) == secret.is_none \/ secret.value = ""

\* HmacAuthorizer._compute_signature.
compute_signature(secret, tx) ==
    [mac |-> [key |-> secret, payload |-> canonical_transaction_payload(tx)],
     flipped |-> 0, ascii |-> TRUE]

\* hmac.compare_digest of two str: TypeError when one of them holds a
\* character outside ASCII, equality otherwise.
compare_digest(a, b) ==
    [raised |-> ~a.ascii \/ ~b.ascii, value |-> a = b]

\* HmacAuthorizer.sign.
sign(reg, tx) ==
    LET secret == get_secret(reg, tx.from_account)
    IN  [raised |-> not_secret(secret),
         signed |-> SignedTransaction(tx, compute_signature(secret.value, tx))]

\* Mutant of verify: the secret is looked up under key_id, not from_account.
verify_by_key_id(reg, signed_tx) ==
    LET secret == IF signed_tx.key_id.is_none THEN None
                  ELSE get_secret(reg, signed_tx.key_id.value)
        expected == compute_signature(secret.value, signed_tx.transaction)
    IN  IF not_secret(secret)
        THEN [raised |-> FALSE, value |-> FALSE]
        ELSE compare_digest(expected, signed_tx.signature)

\* Mutant of verify: a sender the registry does not know is looked up in the
\* accounts table.
verify_from_accounts(reg, signed_tx) ==
    LET sender == signed_tx.transaction.from_account
        secret == IF sender \in DOMAIN reg THEN Some(reg[sender])
                  ELSE IF sender \in DOMAIN accounts
                  THEN Some(accounts[sender].secret)
                  ELSE None
        expected == compute_signature(secret.value, signed_tx.transaction)
    IN  IF not_secret(secret)
        THEN [raised |-> FALSE, value |-> FALSE]
        ELSE compare_digest(expected, signed_tx.signature)

\* HmacAuthorizer.verify.
verify(reg, signed_tx) ==
    LET secret == get_secret(reg, signed_tx.transaction.from_account)
        expected == compute_signature(secret.value, signed_tx.transaction)
    IN  IF not_secret(secret)
        THEN [raised |-> FALSE, value |-> FALSE]
        ELSE compare_digest(expected, signed_tx.signature)

\* Mutant of RouteAuth: the isinstance check is missing, a plain Transaction
\* is taken as it is.
RouteAuthPlainAllowed(auth, reg, req) ==
    IF ~auth \/ ~req.is_signed THEN "ok"
    ELSE IF verify(reg, req).raised THEN "TypeError"
    ELSE IF ~verify(reg, req).value THEN "ValueError: Transaction signature invalid"
    ELSE "ok"

\* The first statement of route: "ok", or the error it raises.
RouteAuth(auth, reg, req) ==
    IF ~auth THEN "ok"
    ELSE IF ~req.is_signed
    THEN "ValueError: SignedTransaction required when authorizer set"
    ELSE IF verify(reg, req).raised THEN "TypeError"
    ELSE IF ~verify(reg, req).value THEN "ValueError: Transaction signature invalid"
    ELSE "ok"

(***************************************************************************)
(* State of the callers and of their sqlite connections.                   *)
(***************************************************************************)
NoEvent ==
    [id |-> 0, created_at |-> now_utc(0), from_account |-> "", to_account |-> "",
     amount |-> Money(0, DEFAULT_CURRENCY), metadata |-> EmptyDict]

NoTx ==
    Transaction("", "", "", Money(0, DEFAULT_CURRENCY), now_utc(0), EmptyDict)

NoLocal ==
    [op |-> "none", tx |-> NoTx, queue |-> <<>>, event |-> NoEvent,
     prev_hash |-> GENESIS]

NoTxn == [open |-> FALSE, ledger_events |-> <<>>, balances |-> EmptyDict]

NoCall == [fn |-> "none"]

NoSignature == [mac |-> [key |-> "", payload |-> <<>>], flipped |-> 0, ascii |-> TRUE]

\* A plain Transaction handed to route.
PlainTransaction(transaction) ==
    [is_signed |-> FALSE, transaction |-> transaction, signature |-> NoSignature,
     key_id |-> None]

NoRequest == PlainTransaction(NoTx)

\* datetime.now(timezone.utc) when an event is built: later than every
\* earlier reading of the clock.
now == now_utc(clock + 1)

Committed == [open |-> TRUE, ledger_events |-> ledger_events, balances |-> balances]

\* Mutant of reader_view: a read sees what an open transaction of another
\* connection has written (read uncommitted).
reader_view_dirty(committed, views) ==
    IF \E q \in DOMAIN views : views[q].open
    THEN views[CHOOSE q \in DOMAIN views : views[q].open]
    ELSE committed

\* What a SELECT on a connection of its own reads (_connect opens one per
\* call, journal_mode WAL): the last committed state, whatever the open
\* transactions of other connections have written.
reader_view(committed, views) == committed

\* Mutant of ConnRollback: the except branch commits what was written.
ConnRollbackKeeps(committed, view) == IF view.open THEN view ELSE committed

\* The except branch of _connect: conn.rollback() discards the private view
\* of the connection, the committed tables stay as they are.
ConnRollback(committed, view) == committed

\* The with-block of apply ends: conn.commit() makes the view the committed
\* state.
ConnCommit(committed, view) == view

Init ==
    /\ ledger_events = <<>>
    /\ balances = EmptyDict
    /\ receipts = {}
    /\ accounts = EmptyDict
    /\ fee_rate = 10
    /\ safety_share = 500
    /\ pc = [p \in Callers |-> "idle"]
    /\ local = [p \in Callers |-> NoLocal]
    /\ txn = [p \in Callers |-> NoTxn]
    /\ writer = 0
    /\ ret = [p \in Callers |-> [kind |-> "none"]]
    /\ clock = 0
    /\ next_uuid = 0
    /\ call = NoCall
    /\ registry = EmptyDict
    /\ authorizer = FALSE
    /\ request = [p \in Callers |-> NoRequest]
    /\ mem_events = <<>>
    /\ mem_balances = EmptyDict
    /\ _safety_vault = 0
    /\ _growth_vault = 0
    /\ _transaction_history = <<>>

(***************************************************************************)
(* Arguments the callers draw from.                                        *)
(***************************************************************************)
\* Routed transactions: amounts 0.005, 0.01, 0.50, 0.99, 100.00, to the
\* sender itself, to another account, to a vault.
Transactions ==
    {Transaction(id, "acct:alice", r, Money(a, c), now_utc(0), EmptyDict) :
        id \in {"t1", "t2"},
        r \in {"acct:alice", "acct:merchant", safety_vault},
        a \in {5, 10, 500, 990, 100000},
        c \in Currencies}

\* Events applied directly: amounts 0, 0.005, 0.015, 1.00.
Events ==
    {LedgerEvent("acct:alice", r, Money(a, c), m) :
        r \in {"acct:alice", "acct:merchant"},
        a \in {0, 5, 15, 1000},
        c \in Currencies,
        m \in EventMetadata}

\* The few arguments used where many operations interleave.
FewTransactions ==
    {tx \in Transactions :
        /\ tx.to_account = "acct:merchant"
        /\ <<tx.id, tx.amount.amount>> \in {<<"t1", 990>>, <<"t2", 100000>>}}

FewEvents ==
    {e \in Events :
        /\ e.to_account = "acct:merchant"
        /\ e.amount.amount \in {0, 1000}
        /\ e.metadata # EmptyDict}

\* What a caller hands to route or verify: a transaction it builds now, as
\* it is (plain) or signed: by HmacAuthorizer.sign ("sign") or with a key of
\* its own; then one field of the transaction or the signature is altered.
Plain(txs) ==
    {[is_signed |-> FALSE, transaction |-> t, signer |-> "none", alter |-> "none"] :
        t \in txs}

Signed(txs, signers, alters) ==
    {[is_signed |-> TRUE, transaction |-> t, signer |-> k, alter |-> a] :
        t \in txs, k \in signers, a \in alters}

\* The fields of a SignedTransaction that can be altered after signing;
\* "amount" changes the amount by less than half a cent, "amount_cents" by
\* whole cents, "signature" flips one nibble of the hex text,
\* "signature_non_ascii" puts a character outside ASCII into it.
Alterations ==
    {"none", "id", "from_account", "to_account", "amount", "amount_cents",
     "currency", "created_at", "metadata", "signature", "signature_non_ascii"}

AlteredTransaction(tx, field) ==
    CASE field = "id" -> [tx EXCEPT !.id = "t2"]
      [] field = "from_account" -> [tx EXCEPT !.from_account = "acct:mallory"]
      [] field = "to_account" -> [tx EXCEPT !.to_account = "acct:mallory"]
      [] field = "amount" -> [tx EXCEPT !.amount.amount = @ + 4]
      [] field = "amount_cents" -> [tx EXCEPT !.amount.amount = @ + 20]
      [] field = "currency" -> [tx EXCEPT !.amount.currency = "EUR"]
      [] field = "created_at" -> [tx EXCEPT !.created_at.utc = @ - 1]
      [] field = "metadata" -> [tx EXCEPT !.metadata = [k \in {"purpose"} |-> "x"]]
      [] OTHER -> tx

AlteredSignature(signature, field) ==
    CASE field = "signature" -> [signature EXCEPT !.flipped = 1]
      [] field = "signature_non_ascii" -> [signature EXCEPT !.ascii = FALSE]
      [] OTHER -> signature

\* The argument built from a descriptor d at time t: raised when the
\* caller's call of sign raises, else the Transaction or SignedTransaction.
Submitted(d, t, reg) ==
    LET tx == [d.transaction EXCEPT !.created_at = now_utc(t)]
        original == IF d.signer = "sign" THEN sign(reg, tx).signed
                    ELSE SignedTransaction(tx, compute_signature(d.signer, tx))
    IN  IF ~d.is_signed
        THEN [raised |-> FALSE, original |-> PlainTransaction(tx),
              request |-> PlainTransaction(tx)]
        ELSE [raised |-> d.signer = "sign" /\ sign(reg, tx).raised,
              original |-> original,
              request |-> [original EXCEPT
                              !.transaction = AlteredTransaction(@, d.alter),
                              !.signature = AlteredSignature(@, d.alter)]]

AuthAccounts == {"acct:alice", "acct:mallory"}

AuthSecrets == {"", "s1"}

\* The transactions signed: 0.01 from alice to the merchant.
AuthTransactions ==
    {Transaction("t1", "acct:alice", "acct:merchant", Money(10, DEFAULT_CURRENCY),
                 now_utc(0), EmptyDict)}

\* Routed transactions whose receipts are saved: 0.005 and 0.99, with and
\* without metadata.
ReceiptTransactions ==
    {Transaction(id, "acct:alice", "acct:merchant", Money(a, DEFAULT_CURRENCY),
                 now_utc(0), m) :
        id \in {"t1", "t2"}, a \in {5, 990}, m \in EventMetadata}

ReceiptIds == {"t1", "t2", "t3"}

\* Transactions of amount 0, 0.01 and 0.99: Transaction validates nothing,
\* a caller can build each of them.
ZeroTransactions ==
    {Transaction("t1", "acct:alice", "acct:merchant", Money(a, DEFAULT_CURRENCY),
                 now_utc(0), EmptyDict) :
        a \in {0, 10, 990}}

\* The transactions signed and verified on their own: 0.005 and 0.01, with
\* and without metadata.
VerifyTransactions ==
    {Transaction("t1", "acct:alice", "acct:merchant", Money(a, DEFAULT_CURRENCY),
                 now_utc(0), m) :
        a \in {5, 10}, m \in EventMetadata}

AccountIds == {"acct:alice"}

Secrets == {"s1", "s2"}

BalanceAccounts == {"acct:alice", growth_vault}

SecretAccountIds == {"acct:alice", "acct:bob"}

(***************************************************************************)
(* TransactionRouter.route and SqliteLedger.apply, statement by statement. *)
(***************************************************************************)
Raise(p, error) ==
    ret' = [ret EXCEPT ![p] = [kind |-> "error", error |-> error, at |-> pc[p]]]

\* The call `op` of p, made while it is idle, raises.
RaiseIn(p, op, error) ==
    ret' = [ret EXCEPT ![p] = [kind |-> "error", error |-> error, at |-> op]]

\* route(tx), up to its first call of apply.
Route(p, reqs) ==
    /\ pc[p] = "idle"
    /\ next_uuid <= MaxRouted
    /\ \E d \in reqs :
          LET req == Submitted(d, clock, registry).request  \* built by the caller
              tx == req.transaction
          IN  /\ ~Submitted(d, clock, registry).raised
              /\ request' = [request EXCEPT ![p] = req]
              /\ IF RouteAuth(authorizer, registry, req) # "ok"
                 THEN /\ Raise(p, RouteAuth(authorizer, registry, req))
                      /\ UNCHANGED <<pc, local>>
                 ELSE IF RouteRaises(tx)
                 THEN /\ Raise(p, "ValueError")
                      /\ UNCHANGED <<pc, local>>
                 ELSE /\ local' = [local EXCEPT ![p] =
                             [NoLocal EXCEPT !.op = "route", !.tx = tx,
                                             !.queue = RouteEvents(tx)]]
                      /\ pc' = [pc EXCEPT ![p] = "apply"]
                      /\ ret' = [ret EXCEPT ![p] = [kind |-> "running"]]
    /\ UNCHANGED <<ledger_events, balances, receipts, accounts, fee_rate,
                   safety_share, txn, writer, clock, next_uuid, call,
                   registry, authorizer, mem_events, mem_balances,
                   engine_vars>>

\* A direct call of apply with an event the caller built.
Apply(p, events) ==
    /\ pc[p] = "idle"
    /\ next_uuid < MaxEvents
    /\ \E e \in events :
          local' = [local EXCEPT ![p] =
              [NoLocal EXCEPT !.op = "apply", !.queue = <<e>>]]
    /\ pc' = [pc EXCEPT ![p] = "apply"]
    /\ ret' = [ret EXCEPT ![p] = [kind |-> "running"]]
    /\ UNCHANGED <<ledger_events, balances, receipts, accounts, fee_rate,
                   safety_share, txn, writer, clock, next_uuid, call,
                   registry, authorizer, request, mem_events, mem_balances,
                   engine_vars>>

\* What the caller does when one apply has returned: the next apply of the
\* route, or the return of the call (route returns its receipt).
Returned(p) ==
    IF Len(local[p].queue) > 1
    THEN /\ local' = [local EXCEPT ![p] =
                [@ EXCEPT !.queue = Tail(@), !.event = NoEvent,
                          !.prev_hash = GENESIS]]
         /\ pc' = [pc EXCEPT ![p] = "apply"]
         /\ ret' = ret
    ELSE /\ local' = [local EXCEPT ![p] = NoLocal]
         /\ pc' = [pc EXCEPT ![p] = "idle"]
         /\ ret' = [ret EXCEPT ![p] =
                IF local[p].op = "route"
                THEN [kind |-> "receipt", receipt |-> Receipt(local[p].tx)]
                ELSE [kind |-> "returned"]]

\* apply: the event is built (uuid4, now), the zero guard, the payload, the
\* connection, and the read of the tail of the chain.
ApplyReadTail(p) ==
    /\ pc[p] = "apply"
    /\ LET e == local[p].queue[1]
           event == [id |-> next_uuid + 1, created_at |-> now,
                     from_account |-> e.from_account, to_account |-> e.to_account,
                     amount |-> e.amount, metadata |-> e.metadata]
       IN  IF apply_drops(event)
           THEN Returned(p)
           ELSE /\ local' = [local EXCEPT ![p] =
                       [@ EXCEPT !.event = event,
                                 !.prev_hash = get_last_hash(ledger_events)]]
                /\ pc' = [pc EXCEPT ![p] = "insert"]
                /\ ret' = ret
    /\ next_uuid' = next_uuid + 1
    /\ clock' = clock + 1
    /\ UNCHANGED <<ledger_events, balances, receipts, accounts, fee_rate,
                   safety_share, txn, writer, call,
                   registry, authorizer, request, mem_events, mem_balances,
                   engine_vars>>

\* INSERT INTO ledger_events: the implicit BEGIN takes the write lock, the
\* row goes into the connection's view.
ApplyInsert(p) ==
    /\ pc[p] = "insert"
    /\ writer = 0
    /\ writer' = p
    /\ txn' = [txn EXCEPT ![p] =
           [Committed EXCEPT !.ledger_events =
               insert_event(@, event_row(local[p].event, local[p].prev_hash))]]
    /\ pc' = [pc EXCEPT ![p] = "upd_from"]
    /\ UNCHANGED <<ledger_events, balances, receipts, accounts, fee_rate,
                   safety_share, local, ret, clock, next_uuid, call,
                   registry, authorizer, request, mem_events, mem_balances,
                   engine_vars>>

ApplyUpdateFrom(p) ==
    /\ pc[p] = "upd_from"
    /\ txn' = [txn EXCEPT ![p].balances =
           update_balance(@, local[p].event.from_account,
                          -local[p].event.amount.amount)]
    /\ pc' = [pc EXCEPT ![p] = "upd_to"]
    /\ UNCHANGED <<ledger_events, balances, receipts, accounts, fee_rate,
                   safety_share, local, writer, ret, clock, next_uuid, call,
                   registry, authorizer, request, mem_events, mem_balances,
                   engine_vars>>

ApplyUpdateTo(p) ==
    /\ pc[p] = "upd_to"
    /\ txn' = [txn EXCEPT ![p].balances =
           update_balance(@, local[p].event.to_account,
                          local[p].event.amount.amount)]
    /\ pc' = [pc EXCEPT ![p] = "commit"]
    /\ UNCHANGED <<ledger_events, balances, receipts, accounts, fee_rate,
                   safety_share, local, writer, ret, clock, next_uuid, call,
                   registry, authorizer, request, mem_events, mem_balances,
                   engine_vars>>

ApplyCommit(p) ==
    /\ pc[p] = "commit"
    /\ ledger_events' = ConnCommit(Committed, txn[p]).ledger_events
    /\ balances' = ConnCommit(Committed, txn[p]).balances
    /\ txn' = [txn EXCEPT ![p] = NoTxn]
    /\ writer' = 0
    /\ Returned(p)
    /\ UNCHANGED <<receipts, accounts, fee_rate, safety_share, clock,
                   next_uuid, call,
                   registry, authorizer, request, mem_events, mem_balances,
                   engine_vars>>

\* A statement of the with-block (the insert, a balance update, the commit)
\* raises: _connect rolls back and re-raises, apply and route propagate it.
ApplyFail(p) ==
    /\ pc[p] \in {"insert", "upd_from", "upd_to", "commit"}
    /\ ledger_events' = ConnRollback(Committed, txn[p]).ledger_events
    /\ balances' = ConnRollback(Committed, txn[p]).balances
    /\ txn' = [txn EXCEPT ![p] = NoTxn]
    /\ writer' = IF writer = p THEN 0 ELSE writer
    /\ local' = [local EXCEPT ![p] = NoLocal]
    /\ pc' = [pc EXCEPT ![p] = "idle"]
    /\ Raise(p, "OperationalError")
    /\ UNCHANGED <<receipts, accounts, fee_rate, safety_share, clock,
                   next_uuid, call,
                   registry, authorizer, request, mem_events, mem_balances,
                   engine_vars>>

(***************************************************************************)
(* The in-memory Ledger (ledger.py).                                       *)
(***************************************************************************)
\* A call of Ledger.apply with an event the caller builds.
LedgerApply(p, events) ==
    /\ pc[p] = "idle"
    /\ next_uuid < MaxEvents
    /\ \E e \in events :
          local' = [local EXCEPT ![p] =
              [NoLocal EXCEPT !.op = "ledger_apply", !.queue = <<e>>]]
    /\ pc' = [pc EXCEPT ![p] = "ledger_apply"]
    /\ ret' = [ret EXCEPT ![p] = [kind |-> "running"]]
    /\ UNCHANGED <<ledger_events, balances, receipts, accounts, fee_rate,
                   safety_share, txn, writer, clock, next_uuid, call,
                   registry, authorizer, request, mem_events, mem_balances,
                   engine_vars>>

\* Ledger.apply: the event is built (uuid4, now), then the zero guard, the
\* append and the two balance entries.
LedgerApplyBody(p) ==
    /\ pc[p] = "ledger_apply"
    /\ LET e == local[p].queue[1]
           event == [id |-> next_uuid + 1, created_at |-> now,
                     from_account |-> e.from_account, to_account |-> e.to_account,
                     amount |-> e.amount, metadata |-> e.metadata]
       IN  /\ mem_events' = ledger_events_after(mem_events, event)
           /\ mem_balances' = ledger_balances_after(mem_balances, event)
    /\ local' = [local EXCEPT ![p] = NoLocal]
    /\ pc' = [pc EXCEPT ![p] = "idle"]
    /\ ret' = [ret EXCEPT ![p] = [kind |-> "returned"]]
    /\ next_uuid' = next_uuid + 1
    /\ clock' = clock + 1
    /\ UNCHANGED <<ledger_events, balances, receipts, accounts, fee_rate,
                   safety_share, txn, writer, call,
                   registry, authorizer, request, engine_vars>>

(***************************************************************************)
(* The other operations of SqliteLedger, each in one connection.           *)
(***************************************************************************)
\* Mutant of decimal_str: the amount is written with two fractional digits
\* (f"{value:.2f}").
decimal_str_2f(value) ==
    LET v == normalize_decimal(value) * DEFAULT_SCALE
    IN  [negative |-> v < 0, units |-> Abs(v) \div 1000, mills |-> Abs(v) % 1000]

\* str(Decimal), which json.dumps(default=str) writes: the sign, the integer
\* digits and every fractional digit of the value.
decimal_str(value) ==
    [negative |-> value < 0, units |-> Abs(value) \div 1000,
     mills |-> Abs(value) % 1000]

\* _to_decimal of a text str(Decimal) wrote.
to_decimal_exact(text) ==
    (IF text.negative THEN -1 ELSE 1) * (text.units * 1000 + text.mills)

\* str(datetime), which json.dumps(default=str) writes: isoformat with a
\* space for the "T"; datetime.fromisoformat reads both.
datetime_str(dt) == isoformat(dt)

money_json(money) ==
    [amount |-> decimal_str(money.amount), currency |-> money.currency]

\* json.dumps(asdict(receipt), default=str, sort_keys=True); a metadata of
\* None is written as null.
receipt_json(receipt) ==
    [transaction_id |-> receipt.transaction_id,
     gross_amount |-> money_json(receipt.gross_amount),
     net_amount |-> money_json(receipt.net_amount),
     fee_amount |-> money_json(receipt.fee_amount),
     safety_amount |-> money_json(receipt.safety_amount),
     growth_amount |-> money_json(receipt.growth_amount),
     vault_safety |-> receipt.vault_safety,
     vault_growth |-> receipt.vault_growth,
     created_at |-> datetime_str(receipt.created_at),
     metadata |-> IF receipt.metadata.is_none
                  THEN [kind |-> "null", pairs |-> <<>>]
                  ELSE [kind |-> "obj", pairs |-> SortedPairs(receipt.metadata.value)]]

\* The row save_receipt writes for a receipt.
receipt_row(receipt) ==
    [transaction_id |-> receipt.transaction_id,
     receipt_json |-> receipt_json(receipt),
     created_at |-> isoformat(receipt.created_at)]

\* Mutant of upsert_receipt: a plain INSERT into a table without its
\* primary key.
insert_receipt(table, receipt) == table \cup {receipt_row(receipt)}

\* INSERT OR REPLACE INTO receipts: the row of the same transaction_id (the
\* primary key) is deleted, the new row inserted.
upsert_receipt(table, receipt) ==
    {r \in table : r.transaction_id # receipt.transaction_id}
        \cup {receipt_row(receipt)}

money_from_json(payload) ==
    Money(to_decimal_exact(payload.amount), payload.currency)

\* get_receipt: none when no row has the id, else the Receipt rebuilt from
\* receipt_json; raised when a Money constructor raises.
get_receipt(table, transaction_id) ==
    LET rows == {r \in table : r.transaction_id = transaction_id}
        payload == (CHOOSE r \in rows : TRUE).receipt_json
    IN  IF rows = {} THEN [found |-> FALSE]
        ELSE [found |-> TRUE,
              raised |-> \E k \in {"gross_amount", "net_amount", "fee_amount",
                                   "safety_amount", "growth_amount"} :
                             MoneyRaises(to_decimal_exact(payload[k].amount)),
              receipt |->
                [transaction_id |-> payload.transaction_id,
                 gross_amount |-> money_from_json(payload.gross_amount),
                 net_amount |-> money_from_json(payload.net_amount),
                 fee_amount |-> money_from_json(payload.fee_amount),
                 safety_amount |-> money_from_json(payload.safety_amount),
                 growth_amount |-> money_from_json(payload.growth_amount),
                 vault_safety |-> payload.vault_safety,
                 vault_growth |-> payload.vault_growth,
                 created_at |-> fromisoformat(payload.created_at),
                 metadata |-> IF payload.metadata.kind = "null"
                              THEN OptionalDict(EmptyDict)
                              ELSE [is_none |-> FALSE,
                                    value |-> json_loads(payload.metadata)]]]

\* _row_to_event: the event events() rebuilds from a stored row.
row_to_event(row) ==
    [id |-> row.event_id,
     created_at |-> fromisoformat(row.created_at),
     from_account |-> row.from_account,
     to_account |-> row.to_account,
     amount |-> Money(to_decimal(row.amount), row.currency),
     metadata |-> deserialize_metadata(row.metadata_json).value]

\* save_receipt of the receipt route has just returned, as the HTTP adaptor
\* calls it.
SaveReceipt(p) ==
    /\ pc[p] = "idle"
    /\ ret[p].kind = "receipt"
    /\ receipts' = upsert_receipt(receipts, ret[p].receipt)
    /\ UNCHANGED <<ledger_events, balances, accounts, fee_rate, safety_share,
                   pc, local, txn, writer, ret, clock, next_uuid, call,
                   registry, authorizer, request, mem_events, mem_balances,
                   engine_vars>>

\* get_receipt of an id, as the HTTP adaptor calls it.
GetReceipt(p) ==
    /\ pc[p] = "idle"
    /\ \E id \in ReceiptIds :
          IF get_receipt(receipts, id).found /\ get_receipt(receipts, id).raised
          THEN Raise(p, "ValueError")
          ELSE ret' = [ret EXCEPT ![p] =
                   [kind |-> "get_receipt", id |-> id,
                    value |-> get_receipt(receipts, id)]]
    /\ UNCHANGED <<ledger_events, balances, receipts, accounts, fee_rate,
                   safety_share, pc, local, txn, writer, clock, next_uuid, call,
                   registry, authorizer, request, mem_events, mem_balances,
                   engine_vars>>

\* Mutant of insert_account: INSERT OR REPLACE, the row of the same
\* account_id is replaced.
insert_or_replace_account(table, account_id, row) ==
    [raised |-> FALSE,
     table |-> [a \in DOMAIN table \cup {account_id} |->
                   IF a = account_id THEN row ELSE table[a]]]

\* INSERT INTO accounts: account_id is the primary key, the statement
\* raises on an account_id that has a row.
insert_account(table, account_id, row) ==
    [raised |-> account_id \in DOMAIN table,
     table |-> [a \in DOMAIN table \cup {account_id} |->
                   IF a \in DOMAIN table THEN table[a] ELSE row]]

\* create_account: the INSERT, committed when it returns and rolled back
\* when it raises.
CreateAccount(p) ==
    /\ pc[p] = "idle"
    /\ \E id \in AccountIds, secret \in Secrets :
          LET inserted == insert_account(accounts, id,
                              [secret |-> secret,
                               created_at |-> isoformat(now_utc(clock))])
          IN  IF inserted.raised
              THEN /\ RaiseIn(p, "create_account", "IntegrityError")
                   /\ accounts' = accounts
              ELSE /\ accounts' = inserted.table
                   /\ ret' = [ret EXCEPT ![p] = [kind |-> "returned"]]
    /\ UNCHANGED <<ledger_events, balances, receipts, fee_rate, safety_share,
                   pc, local, txn, writer, clock, next_uuid, call,
                   registry, authorizer, request, mem_events, mem_balances,
                   engine_vars>>

VerifyChain(p) ==
    /\ pc[p] = "idle"
    /\ LET rows == reader_view(Committed, txn).ledger_events
       IN  IF verify_chain(rows)[2] = "raised"
           THEN RaiseIn(p, "verify_chain", "JSONDecodeError")
           ELSE ret' = [ret EXCEPT ![p] =
                    [kind |-> "verify_chain", value |-> verify_chain(rows)]]
    /\ UNCHANGED <<ledger_events, balances, receipts, accounts, fee_rate,
                   safety_share, pc, local, txn, writer, clock, next_uuid, call,
                   registry, authorizer, request, mem_events, mem_balances,
                   engine_vars>>

\* Mutant of balances_after_select: a row of balance 0.00 is created for an
\* account that has none.
balances_after_select_creating(bal, account) ==
    [a \in DOMAIN bal \cup {account} |-> IF a \in DOMAIN bal THEN bal[a] ELSE 0]

\* The balances table after the SELECT of balance(account) and the commit
\* that closes its connection: nothing was written.
balances_after_select(bal, account) == bal

Balance(p) ==
    /\ pc[p] = "idle"
    /\ \E a \in BalanceAccounts :
          /\ ret' = [ret EXCEPT ![p] =
                 [kind |-> "balance", account |-> a,
                  value |-> balance(reader_view(Committed, txn).balances, a)]]
          /\ balances' = balances_after_select(balances, a)
    /\ UNCHANGED <<ledger_events, receipts, accounts, fee_rate,
                   safety_share, pc, local, txn, writer, clock, next_uuid, call,
                   registry, authorizer, request, mem_events, mem_balances,
                   engine_vars>>

\* SqliteLedger.get_account_secret on the accounts table.
get_account_secret(table, account_id) ==
    IF account_id \in DOMAIN table THEN Some(table[account_id].secret) ELSE None

GetAccountSecret(p) ==
    /\ pc[p] = "idle"
    /\ \E id \in SecretAccountIds :
          ret' = [ret EXCEPT ![p] =
              [kind |-> "get_account_secret", account_id |-> id,
               value |-> get_account_secret(accounts, id)]]
    /\ UNCHANGED <<ledger_events, balances, receipts, accounts, fee_rate,
                   safety_share, pc, local, txn, writer, clock, next_uuid, call,
                   registry, authorizer, request, mem_events, mem_balances,
                   engine_vars>>

\* events(): _row_to_event of every row; json.loads raises on a
\* metadata_json that is not JSON.
ListEvents(p) ==
    /\ pc[p] = "idle"
    /\ LET rows == reader_view(Committed, txn).ledger_events
       IN  IF \E i \in 1..Len(rows) :
                  deserialize_metadata(rows[i].metadata_json).raised
           THEN RaiseIn(p, "events", "JSONDecodeError")
           ELSE ret' = [ret EXCEPT ![p] =
                    [kind |-> "events",
                     value |-> [i \in 1..Len(rows) |-> row_to_event(rows[i])]]]
    /\ UNCHANGED <<ledger_events, balances, receipts, accounts, fee_rate,
                   safety_share, pc, local, txn, writer, clock, next_uuid, call,
                   registry, authorizer, request, mem_events, mem_balances,
                   engine_vars>>

\* Mutant of create_table_if_not_exists: the table is dropped and created
\* again.
create_table_dropping(exists, table, empty) == empty

\* CREATE TABLE IF NOT EXISTS: the table as it is when the file has it, an
\* empty table otherwise.
create_table_if_not_exists(exists, table, empty) ==
    IF exists THEN table ELSE empty

\* SqliteLedger(path) on the existing file: the script of _init_db, one
\* statement per table; the file has the four tables since it was first
\* opened.
Open(p) ==
    /\ pc[p] = "idle"
    /\ ledger_events' = create_table_if_not_exists(TRUE, ledger_events, <<>>)
    /\ balances' = create_table_if_not_exists(TRUE, balances, EmptyDict)
    /\ receipts' = create_table_if_not_exists(TRUE, receipts, {})
    /\ accounts' = create_table_if_not_exists(TRUE, accounts, EmptyDict)
    /\ ret' = [ret EXCEPT ![p] = [kind |-> "opened"]]
    /\ UNCHANGED <<fee_rate, safety_share, pc, local, txn, writer, clock,
                   next_uuid, call,
                   registry, authorizer, request, mem_events, mem_balances,
                   engine_vars>>

(***************************************************************************)
(* The operations of AuthRegistry and HmacAuthorizer.                      *)
(***************************************************************************)
\* AuthRegistry.register, with a secret or without one.
Register ==
    /\ \E a \in AuthAccounts, x \in AuthSecrets, given \in BOOLEAN :
          registry' = register(registry, a, IF given THEN Some(x) ELSE None,
                               "token")
    /\ UNCHANGED <<ledger_events, balances, receipts, accounts, fee_rate,
                   safety_share, pc, local, txn, writer, ret, clock, next_uuid,
                   call, authorizer, request, mem_events, mem_balances,
                   engine_vars>>

\* AuthRegistry.set_secret.
SetSecret ==
    /\ \E a \in AuthAccounts, x \in AuthSecrets :
          registry' = set_secret(registry, a, x)
    /\ UNCHANGED <<ledger_events, balances, receipts, accounts, fee_rate,
                   safety_share, pc, local, txn, writer, ret, clock, next_uuid,
                   call, authorizer, request, mem_events, mem_balances,
                   engine_vars>>

\* HmacAuthorizer.sign of a transaction the caller builds.
Sign(p, txs) ==
    /\ pc[p] = "idle"
    /\ \E t \in txs :
          LET tx == [t EXCEPT !.created_at = now_utc(clock)]
          IN  IF sign(registry, tx).raised
              THEN Raise(p, "ValueError: No secret registered for from_account")
              ELSE ret' = [ret EXCEPT ![p] =
                       [kind |-> "sign", value |-> sign(registry, tx).signed]]
    /\ UNCHANGED <<ledger_events, balances, receipts, accounts, fee_rate,
                   safety_share, pc, local, txn, writer, clock, next_uuid, call,
                   registry, authorizer, request, mem_events, mem_balances,
                   engine_vars>>

\* HmacAuthorizer.verify of a SignedTransaction the caller hands in; the
\* result records the argument, what was signed before any alteration
\* (and whether sign returned it), and the secret the registry held.
Verify(p, reqs) ==
    /\ pc[p] = "idle"
    /\ \E d \in reqs :
          LET s == Submitted(d, clock, registry)
              signed == sign(registry, s.original.transaction)
          IN  /\ d.is_signed
              /\ ~s.raised
              /\ ret' = [ret EXCEPT ![p] =
                     [kind |-> "verify",
                      request |-> s.request,
                      original |-> s.original,
                      by_sign |-> ~signed.raised /\ signed.signed = s.original,
                      secret |-> get_secret(registry,
                                            s.request.transaction.from_account),
                      raised |-> verify(registry, s.request).raised,
                      value |-> verify(registry, s.request).value]]
    /\ UNCHANGED <<ledger_events, balances, receipts, accounts, fee_rate,
                   safety_share, pc, local, txn, writer, clock, next_uuid, call,
                   registry, authorizer, request, mem_events, mem_balances,
                   engine_vars>>

\* POST /accounts of the HTTP adaptor: the account is inserted into the
\* accounts table, then its secret is put into the registry; when the
\* insert raises the registry is not reached.
ApiCreateAccount(p) ==
    /\ pc[p] = "idle"
    /\ \E id \in AccountIds, secret \in Secrets :
          LET inserted == insert_account(accounts, id,
                              [secret |-> secret,
                               created_at |-> isoformat(now_utc(clock))])
          IN  IF inserted.raised
              THEN /\ RaiseIn(p, "create_account", "IntegrityError")
                   /\ UNCHANGED <<accounts, registry>>
              ELSE /\ accounts' = inserted.table
                   /\ registry' = set_secret(registry, id, secret)
                   /\ ret' = [ret EXCEPT ![p] = [kind |-> "returned"]]
    /\ UNCHANGED <<ledger_events, balances, receipts, fee_rate, safety_share,
                   pc, local, txn, writer, clock, next_uuid, call,
                   authorizer, request, mem_events, mem_balances,
                   engine_vars>>

StoreOps(p) ==
    \/ SaveReceipt(p)
    \/ GetReceipt(p)
    \/ CreateAccount(p)
    \/ VerifyChain(p)
    \/ Balance(p)
    \/ ListEvents(p)
    \/ GetAccountSecret(p)
    \/ Open(p)

ApplySteps(p) ==
    \/ ApplyReadTail(p)
    \/ ApplyInsert(p)
    \/ ApplyUpdateFrom(p)
    \/ ApplyUpdateTo(p)
    \/ ApplyCommit(p)
    \/ ApplyFail(p)

\* The arguments of route and verify in each specification.
Signers == {"sign", "s1", "s2"}

AuthRequests == Signed(AuthTransactions, Signers, Alterations)

VerifyRequests == Signed(VerifyTransactions, Signers, Alterations)

PlainTransactions == Plain(Transactions)

PlainFewTransactions == Plain(FewTransactions)

PlainAuthTransactions == Plain(AuthTransactions)

PlainReceiptTransactions == Plain(ReceiptTransactions)

PlainZeroTransactions == Plain(ZeroTransactions)

RegistryRequests == Signed(AuthTransactions, Signers, {"none"})

(***************************************************************************)
(* Specifications.                                                         *)
(***************************************************************************)
\* One caller at a time uses the store and the router.
Next ==
    \/ Route(1, PlainFewTransactions)
    \/ Apply(1, FewEvents)
    \/ ApplySteps(1)
    \/ StoreOps(1)

Spec == Init /\ [][Next]_vars

\* One caller applies events of any kind, one call at a time.
ApplyNext == Apply(1, Events) \/ ApplySteps(1)

ApplySpec == Init /\ [][ApplyNext]_vars

\* One caller applies events to a SqliteLedger and to an in-memory Ledger.
LedgersNext ==
    \/ Apply(1, Events)
    \/ ApplySteps(1)
    \/ LedgerApply(1, Events)
    \/ LedgerApplyBody(1)

LedgersSpec == Init /\ [][LedgersNext]_vars

\* One caller routes transactions and saves and reads their receipts.
ReceiptNext ==
    \/ Route(1, PlainReceiptTransactions)
    \/ ApplySteps(1)
    \/ SaveReceipt(1)
    \/ GetReceipt(1)
    \/ Balance(1)

ReceiptSpec == Init /\ [][ReceiptNext]_vars

\* One caller routes transactions of amount 0, 0.01 and 0.99 and saves
\* their receipts.
ZeroRouteNext ==
    \/ Route(1, PlainZeroTransactions)
    \/ ApplySteps(1)
    \/ SaveReceipt(1)

ZeroRouteSpec == Init /\ [][ZeroRouteNext]_vars

\* One caller applies events while another reads the store.
ReadersNext ==
    \/ Apply(1, FewEvents)
    \/ ApplySteps(1)
    \/ VerifyChain(2)
    \/ Balance(2)
    \/ ListEvents(2)

ReadersSpec == Init /\ [][ReadersNext]_vars

\* Two callers apply events to the same store concurrently.
ConcNext == \E p \in Callers : Apply(p, FewEvents) \/ ApplySteps(p)

ConcSpec == Init /\ [][ConcNext]_vars

\* A router of any configuration routes transactions, one call at a time.
RouteInit ==
    /\ ledger_events = <<>>
    /\ balances = EmptyDict
    /\ receipts = {}
    /\ accounts = EmptyDict
    /\ fee_rate \in FeeRates
    /\ safety_share \in SafetyShares
    /\ pc = [p \in Callers |-> "idle"]
    /\ local = [p \in Callers |-> NoLocal]
    /\ txn = [p \in Callers |-> NoTxn]
    /\ writer = 0
    /\ ret = [p \in Callers |-> [kind |-> "none"]]
    /\ clock = 0
    /\ next_uuid = 0
    /\ call = NoCall
    /\ registry = EmptyDict
    /\ authorizer = FALSE
    /\ request = [p \in Callers |-> NoRequest]
    /\ mem_events = <<>>
    /\ mem_balances = EmptyDict
    /\ _safety_vault = 0
    /\ _growth_vault = 0
    /\ _transaction_history = <<>>

RouteNext == Route(1, PlainTransactions) \/ ApplySteps(1)

RouteSpec == RouteInit /\ [][RouteNext]_vars

\* The registry is written and transactions are signed and verified.
VerifyNext ==
    \/ Register
    \/ SetSecret
    \/ Sign(1, VerifyTransactions)
    \/ Verify(1, VerifyRequests)

VerifySpec == Init /\ [][VerifyNext]_vars

\* A router built with or without an authorizer is given plain and signed
\* transactions while secrets are registered.
AuthInit ==
    /\ ledger_events = <<>>
    /\ balances = EmptyDict
    /\ receipts = {}
    /\ accounts = EmptyDict
    /\ fee_rate = 10
    /\ safety_share = 500
    /\ pc = [p \in Callers |-> "idle"]
    /\ local = [p \in Callers |-> NoLocal]
    /\ txn = [p \in Callers |-> NoTxn]
    /\ writer = 0
    /\ ret = [p \in Callers |-> [kind |-> "none"]]
    /\ clock = 0
    /\ next_uuid = 0
    /\ call = NoCall
    /\ registry = EmptyDict
    /\ authorizer \in BOOLEAN
    /\ request = [p \in Callers |-> NoRequest]
    /\ mem_events = <<>>
    /\ mem_balances = EmptyDict
    /\ _safety_vault = 0
    /\ _growth_vault = 0
    /\ _transaction_history = <<>>

AuthNext ==
    \/ SetSecret
    \/ Route(1, AuthRequests)
    \/ Route(1, PlainAuthTransactions)
    \/ ApplySteps(1)

AuthSpec == AuthInit /\ [][AuthNext]_vars

\* Accounts are created in the accounts table, in the registry or in both
\* while signed transactions are verified and routed.
RegistryNext ==
    \/ SetSecret
    \/ CreateAccount(1)
    \/ ApiCreateAccount(1)
    \/ Verify(1, RegistryRequests)
    \/ Route(1, RegistryRequests)
    \/ ApplySteps(1)

RegistrySpec == AuthInit /\ [][RegistryNext]_vars

\* The policy functions called on their own, with any arguments.
CallComputeFee ==
    /\ \E r \in PolicyRates, a \in PolicyAmounts, c \in Currencies :
          call' = [fn |-> "compute_fee", rate |-> r, amount |-> Money(a, c),
                   raised |-> FeeRaises(r, Money(a, c)),
                   fee |-> compute_fee(r, Money(a, c))]
    /\ UNCHANGED <<ledger_events, balances, receipts, accounts, fee_rate,
                   safety_share, pc, local, txn, writer, ret, clock, next_uuid,
                   registry, authorizer, request, mem_events, mem_balances,
                   engine_vars>>

CallSplit ==
    /\ \E s \in PolicyShares, f \in PolicyAmounts, c \in Currencies :
          call' = [fn |-> "split", share |-> s, fee |-> Money(f, c),
                   raised |-> split(s, Money(f, c)).raised,
                   safety |-> split(s, Money(f, c)).safety,
                   growth |-> split(s, Money(f, c)).growth]
    /\ UNCHANGED <<ledger_events, balances, receipts, accounts, fee_rate,
                   safety_share, pc, local, txn, writer, ret, clock, next_uuid,
                   registry, authorizer, request, mem_events, mem_balances,
                   engine_vars>>

PolicyNext == CallComputeFee \/ CallSplit

\* Money(amount, currency) constructed with any amount.
CallMoney ==
    /\ \E a \in MoneyAmounts, c \in MoneyCurrencies :
          call' = [fn |-> "Money", amount |-> a, currency |-> c,
                   raised |-> MoneyRaises(a), value |-> Money(a, c)]
    /\ UNCHANGED <<ledger_events, balances, receipts, accounts, fee_rate,
                   safety_share, pc, local, txn, writer, ret, clock, next_uuid,
                   registry, authorizer, request, mem_events, mem_balances,
                   engine_vars>>

\* a - b of two Money values that exist.
CallMoneySub ==
    /\ \E a \in MoneyValues, b \in MoneyValues :
          call' = [fn |-> "money_sub", a |-> a, b |-> b,
                   raised |-> MoneySubRaises(a, b), value |-> MoneySub(a, b)]
    /\ UNCHANGED <<ledger_events, balances, receipts, accounts, fee_rate,
                   safety_share, pc, local, txn, writer, ret, clock, next_uuid,
                   registry, authorizer, request, mem_events, mem_balances,
                   engine_vars>>

\* a + b of two Money values that exist.
CallMoneyAdd ==
    /\ \E a \in MoneyValues, b \in MoneyValues :
          call' = [fn |-> "money_add", a |-> a, b |-> b,
                   raised |-> MoneyAddRaises(a, b), value |-> MoneyAdd(a, b)]
    /\ UNCHANGED <<ledger_events, balances, receipts, accounts, fee_rate,
                   safety_share, pc, local, txn, writer, ret, clock, next_uuid,
                   registry, authorizer, request, mem_events, mem_balances,
                   engine_vars>>

\* Money values are constructed, added and subtracted.
MoneyNext == CallMoney \/ CallMoneySub \/ CallMoneyAdd

MoneySpec == Init /\ [][MoneyNext]_vars

PolicySpec == Init /\ [][PolicyNext]_vars

(***************************************************************************)
(* Properties.                                                             *)
(***************************************************************************)
RECURSIVE SumBalances(_, _)
SumBalances(bal, as) ==
    IF as = {} THEN 0
    ELSE LET a == CHOOSE x \in as : TRUE
         IN  to_decimal(bal[a]) + SumBalances(bal, as \ {a})

Rows == 1..Len(ledger_events)

\* C1: after any sequence of route calls the stored balances of all accounts
\* sum to 0.
C1_BalancesSumToZero == SumBalances(balances, DOMAIN balances) = 0

\* C1 witness: the chain holds a transfer from an account to itself and a
\* transfer (not a fee split) to a vault account, and balances are not zero.
C1_Witness ==
    /\ \E i \in Rows : ledger_events[i].from_account = ledger_events[i].to_account
    /\ \E i \in Rows :
          /\ ledger_events[i].to_account = safety_vault
          /\ Len(ledger_events[i].metadata_json.pairs) = 1
    /\ \E a \in DOMAIN balances : balances[a] # 0

\* C2: every receipt route returns has net + fee = gross, exactly.
C2_NetPlusFeeIsGross ==
    \A p \in Callers :
        ret[p].kind = "receipt" =>
            ret[p].receipt.net_amount.amount + ret[p].receipt.fee_amount.amount
                = ret[p].receipt.gross_amount.amount

\* C3: for any fee and any safety_share in [0, 1], split returns
\* safety = quantise(fee * share), growth = fee - safety, both non-negative,
\* with safety + growth = fee.
C3_SplitConservesFee ==
    (call.fn = "split" /\ 0 <= call.share /\ call.share <= 1000) =>
        /\ ~call.raised
        /\ call.safety.amount % DEFAULT_SCALE = 0
        /\ -5000 <= call.fee.amount * call.share - 1000 * call.safety.amount
        /\ call.fee.amount * call.share - 1000 * call.safety.amount < 5000
        /\ call.growth.amount = call.fee.amount - call.safety.amount
        /\ call.safety.amount >= 0
        /\ call.growth.amount >= 0

\* C4: the fee of every receipt is amount * fee_rate rounded half-up to two
\* fractional digits: a whole number of cents, nearest to the product, the
\* tie going up.
C4_FeeIsHalfUp ==
    \A p \in Callers :
        ret[p].kind = "receipt" =>
            LET fee == ret[p].receipt.fee_amount.amount
                product == ret[p].receipt.gross_amount.amount * fee_rate
            IN  /\ fee_rate >= 0
                /\ fee % DEFAULT_SCALE = 0
                /\ -5000 <= product - 1000 * fee
                /\ product - 1000 * fee < 5000

\* C4 witness: 0.99 routed at 1% is charged 0.01.
C4_Witness ==
    /\ fee_rate = 10
    /\ ret[1].kind = "receipt"
    /\ ret[1].receipt.gross_amount.amount = 990
    /\ ret[1].receipt.fee_amount.amount = 10

\* C5: after any sequence of apply calls that do not overlap, verify_chain
\* returns (true, none).
C5_ChainVerifies == verify_chain(ledger_events) = <<TRUE, "none">>

\* C5 witness: a chain of three rows, among them an amount that is not a
\* whole number of cents when applied (0.015, stored as 0.02) and a metadata
\* dict of two keys.
C5_Witness ==
    /\ Len(ledger_events) = 3
    /\ pc[1] = "idle"
    /\ \E i \in Rows : Len(ledger_events[i].metadata_json.pairs) = 2
    /\ \E i \in Rows : ledger_events[i].amount = 2

\* C6: with concurrent apply calls every committed row's prev_hash is the
\* event_hash of the row before it (GENESIS for the first row), so no two
\* rows share a prev_hash.
C6_NoFork ==
    /\ \A i \in Rows :
          ledger_events[i].prev_hash =
              IF i = 1 THEN GENESIS ELSE ledger_events[i - 1].event_hash
    /\ \A i, j \in Rows :
          ledger_events[i].prev_hash = ledger_events[j].prev_hash => i = j

\* The rows the running route call of p has committed: the events it built
\* are later than the transaction it was given.
RouteRows(p) ==
    {i \in Rows : ledger_events[i].created_at[1] > local[p].tx.created_at.utc}

NonZeroEvents(tx) ==
    {k \in 1..3 : RouteEvents(tx)[k].amount.amount # 0}

\* C7: a route call is all-or-nothing: at no moment does the chain hold some
\* but not all of the events of the call.
C7_RouteAllOrNothing ==
    \A p \in Callers :
        local[p].op = "route" =>
            Cardinality(RouteRows(p)) \in {0, Cardinality(NonZeroEvents(local[p].tx))}

\* The accounts the committed rows name.
RowAccounts ==
    {ledger_events[i].from_account : i \in Rows}
        \cup {ledger_events[i].to_account : i \in Rows}

\* C8: an apply call that fails after the read of the tail leaves
\* ledger_events and balances as they were, and no row survives without its
\* balance rows nor a balance row without a row naming its account.
C8_FailedApplyRollsBack ==
    /\ [](DOMAIN balances = RowAccounts)
    /\ [][\A p \in Callers :
            (pc[p] \in {"insert", "upd_from", "upd_to", "commit"}
                /\ ret'[p].kind = "error")
            => (ledger_events' = ledger_events /\ balances' = balances)]_vars

\* C8 witness: an apply call has failed at its commit, after an earlier one
\* had committed a row.
C8_Witness ==
    /\ ret[1].kind = "error"
    /\ ret[1].at = "commit"
    /\ Len(ledger_events) = 1
    /\ DOMAIN balances = {"acct:alice", "acct:merchant"}

IsPrefix(a, b) ==
    /\ Len(a) <= Len(b)
    /\ \A i \in 1..Len(a) : a[i] = b[i]

\* C9: the event log is append-only: every operation of the store leaves the
\* rows it found as a prefix of the rows it leaves, each row unchanged.
C9_AppendOnly == [][IsPrefix(ledger_events, ledger_events')]_vars

\* C9 witness: rows were appended by route and by apply, and a receipt, an
\* account and a verification have been asked of the store since.
C9_Witness ==
    /\ Len(ledger_events) >= 3
    /\ receipts # {}
    /\ accounts # EmptyDict
    /\ ret[1].kind = "verify_chain"

\* C22: no TransactionRouter holds a FeePolicy of fee_rate < 0 or a
\* SplitPolicy of safety_share outside [0, 1]: their constructors reject
\* such values.
C22_PoliciesValid ==
    /\ fee_rate >= 0
    /\ 0 <= safety_share
    /\ safety_share <= 1000

\* C23: every Money value has amount >= 0: Money of a negative amount
\* raises, a - b raises when the re-quantised difference is negative (a
\* below b by half a cent or more) and what it returns is not negative,
\* and a + b and a - b raise when the currencies differ.
C23_MoneyNonNegative ==
    /\ call.fn = "Money" =>
          /\ call.amount < 0 => call.raised
          /\ ~call.raised => call.value.amount >= 0
    /\ call.fn = "money_sub" =>
          /\ call.a.currency # call.b.currency => call.raised
          /\ 2 * (call.a.amount - call.b.amount) <= -DEFAULT_SCALE => call.raised
          /\ ~call.raised => call.value.amount >= 0
    /\ call.fn = "money_add" =>
          /\ call.a.currency # call.b.currency => call.raised
          /\ ~call.raised => call.value.amount >= 0

\* C23 witness: 1.00 - 1.005 of one currency has raised.
C23_Witness ==
    /\ call.fn = "money_sub"
    /\ call.a = Money(1000, DEFAULT_CURRENCY)
    /\ call.b = Money(1005, DEFAULT_CURRENCY)
    /\ call.raised

\* A Decimal of two fractional digits: a whole number of cents.
Quantised(amount) == amount % DEFAULT_SCALE = 0

\* C24: every Money amount of a receipt (gross, net, fee, safety, growth)
\* and of an event route hands to the ledger is quantised to two fractional
\* digits, whatever amount the transaction carries.
C24_AmountsQuantised ==
    \A p \in Callers :
        /\ ret[p].kind = "receipt" =>
              \A k \in {"gross_amount", "net_amount", "fee_amount",
                         "safety_amount", "growth_amount"} :
                  Quantised(ret[p].receipt[k].amount)
        /\ local[p].op = "route" =>
              \A i \in 1..Len(local[p].queue) :
                  Quantised(local[p].queue[i].amount.amount)

\* C25: a Transaction of amount zero is rejected when it is constructed:
\* route is never running on one and never returns a receipt for one.
C25_NoZeroAmountRouted ==
    \A p \in Callers :
        /\ local[p].op = "route" => local[p].tx.amount.amount > 0
        /\ ret[p].kind = "receipt" => ret[p].receipt.gross_amount.amount > 0

\* The step of p is SqliteLedger(path) on the existing file.
OpenStep(p) ==
    /\ pc[p] = "idle"
    /\ ret[p].kind # "opened"
    /\ ret'[p].kind = "opened"

\* C26: constructing SqliteLedger again on the existing file leaves every
\* row of ledger_events, balances, receipts and accounts as it was, so the
\* tail of the chain and the result of verify_chain are the same as before.
C26_OpenIsIdempotent ==
    [][\A p \in Callers :
        OpenStep(p)
        => /\ ledger_events' = ledger_events
           /\ balances' = balances
           /\ receipts' = receipts
           /\ accounts' = accounts
           /\ get_last_hash(ledger_events') = get_last_hash(ledger_events)
           /\ verify_chain(ledger_events') = verify_chain(ledger_events)]_vars

\* C26 witness: the store has been opened again while each of its four
\* tables held a row.
C26_Witness ==
    /\ ret[1].kind = "opened"
    /\ Len(ledger_events) >= 1
    /\ balances # EmptyDict
    /\ receipts # {}
    /\ accounts # EmptyDict

\* What the rows of a chain have moved into account a.
RECURSIVE RowsEffect(_, _, _)
RowsEffect(rows, i, a) ==
    IF i > Len(rows) THEN 0
    ELSE (IF rows[i].to_account = a THEN to_decimal(rows[i].amount) ELSE 0)
         - (IF rows[i].from_account = a THEN to_decimal(rows[i].amount) ELSE 0)
         + RowsEffect(rows, i + 1, a)

\* The step of p is a read (verify_chain, events or balance) that returns.
ReadStep(p) ==
    /\ pc[p] = "idle"
    /\ ret'[p].kind \in {"verify_chain", "events", "balance"}
    /\ (ret'[p].kind # ret[p].kind \/ ret'[p] # ret[p])

\* C27: a verify_chain, events or balance call that runs while another
\* caller applies events observes the committed appends only: verify_chain
\* returns (true, none) at every point of the writer's apply, events lists
\* the committed rows, none of which disappears later, and balance returns
\* what the committed rows have moved into the account.
C27_ReadersSeeCommitted ==
    /\ [](\A p \in Callers :
            ret[p].kind = "events" =>
                /\ Len(ret[p].value) <= Len(ledger_events)
                /\ \A i \in 1..Len(ret[p].value) :
                       ret[p].value[i] = row_to_event(ledger_events[i]))
    /\ [][\A p \in Callers :
            ReadStep(p)
            => /\ ret'[p].kind = "verify_chain"
                  => ret'[p].value = <<TRUE, "none">>
               /\ ret'[p].kind = "events"
                  => Len(ret'[p].value) = Len(ledger_events)
               /\ ret'[p].kind = "balance"
                  => ret'[p].value
                         = RowsEffect(ledger_events, 1, ret'[p].account)]_vars

\* C27 witness: while the writer's second row is inserted and one of its
\* balances updated, not yet committed, the reader has listed one event.
C27_Witness ==
    /\ pc[1] = "upd_to"
    /\ Len(ledger_events) = 1
    /\ Len(txn[1].ledger_events) = 2
    /\ ret[2].kind = "events"
    /\ Len(ret[2].value) = 1

\* The step of p is a create_account call that returns.
CreateReturns(p) ==
    /\ pc[p] = "idle"
    /\ pc'[p] = "idle"
    /\ ret'[p].kind = "returned"
    /\ (accounts' # accounts \/ ret[p].kind # "returned")

\* The step of p is a create_account call that raises.
CreateRaises(p) ==
    /\ pc[p] = "idle"
    /\ ret'[p].kind = "error"
    /\ ret'[p].at = "create_account"
    /\ (ret[p].kind # "error" \/ ret[p].at # "create_account")

\* C28: the accounts table is insert-only: no operation of the store
\* changes or deletes a row of it, a create_account that returns has added
\* the row of an account_id that had none, and a create_account for an
\* account_id that has a row raises and leaves the table as it was.
C28_AccountsInsertOnly ==
    /\ [][\A a \in DOMAIN accounts :
            a \in DOMAIN accounts' /\ accounts'[a] = accounts[a]]_vars
    /\ [][\A p \in Callers :
            /\ CreateReturns(p)
               => Cardinality(DOMAIN accounts')
                      = Cardinality(DOMAIN accounts) + 1
            /\ CreateRaises(p)
               => (accounts' = accounts /\ accounts # EmptyDict)]_vars

\* C28 witness: the account was created before any event was applied, rows
\* have been appended since, and a later create_account of the same
\* account_id has raised.
C28_Witness ==
    /\ ret[1].kind = "error"
    /\ ret[1].at = "create_account"
    /\ Len(ledger_events) >= 1
    /\ "acct:alice" \in DOMAIN accounts
    /\ accounts["acct:alice"].created_at = isoformat(now_utc(0))

ReadKinds ==
    {"verify_chain", "balance", "events", "get_receipt", "get_account_secret"}

\* The step of p is a read of the store that returns.
ReadReturns(p) ==
    /\ pc[p] = "idle"
    /\ ret'[p].kind \in ReadKinds
    /\ (ret'[p].kind # ret[p].kind \/ ret'[p] # ret[p])

\* C30: verify_chain, balance, events, get_receipt and get_account_secret
\* leave the four tables as they are; verify_chain returns what the rows of
\* ledger_events alone determine, and balance of an account that has no
\* row returns 0 and creates none.
C30_ReadsChangeNothing ==
    /\ [](\A p \in Callers :
            (ret[p].kind = "balance" /\ ret[p].account \notin DOMAIN balances)
            => ret[p].value = 0)
    /\ [][\A p \in Callers :
            ReadReturns(p)
            => /\ ledger_events' = ledger_events
               /\ balances' = balances
               /\ receipts' = receipts
               /\ accounts' = accounts
               /\ ret'[p].kind = "verify_chain"
                  => ret'[p].value = verify_chain(ledger_events)]_vars

\* C30 witness: balance of the growth vault, which has no row in a store
\* that holds rows, has returned 0.
C30_Witness ==
    /\ ret[1].kind = "balance"
    /\ ret[1].account = growth_vault
    /\ ret[1].value = 0
    /\ growth_vault \notin DOMAIN balances
    /\ balances # EmptyDict
    /\ Len(ledger_events) >= 1

(***************************************************************************)
(* Tampering: one stored field of one row overwritten from outside.        *)
(***************************************************************************)
BadText == [kind |-> "bad", pairs |-> <<>>]

EmptyText == [kind |-> "empty", pairs |-> <<>>]

\* Texts to overwrite a metadata_json with: not JSON, the empty text, the
\* same pairs in another order, another value for every key.
MetadataTexts(text) ==
    {BadText, EmptyText,
     [kind |-> "obj",
      pairs |-> [i \in 1..Len(text.pairs) |-> text.pairs[Len(text.pairs) + 1 - i]]],
     [kind |-> "obj",
      pairs |-> [i \in 1..Len(text.pairs) |-> <<text.pairs[i][1], "tampered">>]]}

HashValues(row) ==
    {GENESIS, row.prev_hash, hash_event(row.event_hash, row_payload(row))}

Tampered(i) ==
    LET row == ledger_events[i]
    IN  {[ledger_events EXCEPT ![i].amount = v] : v \in {0, 1, 5000} \ {row.amount}}
        \cup {[ledger_events EXCEPT ![i].from_account = v] :
                 v \in {"acct:alice", "acct:mallory"} \ {row.from_account}}
        \cup {[ledger_events EXCEPT ![i].to_account = v] :
                 v \in {"acct:alice", "acct:mallory"} \ {row.to_account}}
        \cup {[ledger_events EXCEPT ![i].metadata_json = v] :
                 v \in MetadataTexts(row.metadata_json) \ {row.metadata_json}}
        \cup {[ledger_events EXCEPT ![i].event_hash = v] :
                 v \in HashValues(row) \ {row.event_hash}}

\* C10: overwriting the stored amount, from_account, to_account, metadata
\* or event_hash of any one row with a different value makes verify_chain
\* return false with the reason event_hash mismatch or prev_hash mismatch.
C10_TamperDetected ==
    \A i \in Rows : \A rows \in Tampered(i) :
        /\ verify_chain(rows)[1] = FALSE
        /\ verify_chain(rows)[2] \in {"event_hash mismatch", "prev_hash mismatch"}

\* A write to the database file from outside the program: one stored field
\* of one row of a chain that verifies is overwritten, while no connection
\* holds the write lock.
Overwrite ==
    /\ writer = 0
    /\ verify_chain(ledger_events) = <<TRUE, "none">>
    /\ \E i \in Rows : \E rows \in Tampered(i) : ledger_events' = rows
    /\ UNCHANGED <<balances, receipts, accounts, fee_rate, safety_share,
                   pc, local, txn, writer, ret, clock, next_uuid, call,
                   registry, authorizer, request, mem_events, mem_balances,
                   engine_vars>>

\* One caller applies events, reads the chain and verifies it while rows are
\* overwritten from outside.
TamperNext ==
    \/ Apply(1, FewEvents)
    \/ ApplySteps(1)
    \/ Overwrite
    \/ VerifyChain(1)
    \/ ListEvents(1)

TamperSpec == Init /\ [][TamperNext]_vars

\* C21: verify_chain never raises: whatever the rows of ledger_events hold,
\* rows overwritten from outside included, it returns (true, none) or
\* (false, reason).
C21_VerifyChainNeverRaises ==
    \A p \in Callers :
        ~(ret[p].kind = "error" /\ ret[p].at = "verify_chain")

(***************************************************************************)
(* Authentication.                                                         *)
(***************************************************************************)
Verified == [raised |-> FALSE, value |-> TRUE]

\* C11: for every account with a registered secret and every transaction
\* from that account, verify(sign(tx)) returns true.
C11_SignVerifyRoundTrip ==
    \A p \in Callers :
        (ret[p].kind = "verify" /\ ret[p].by_sign
            /\ ret[p].request = ret[p].original)
        => (~ret[p].raised /\ ret[p].value)

\* C11 witness: verify has returned true for what sign returned for a
\* transaction of 0.005 with metadata, under a secret generated by register.
C11_Witness ==
    /\ ret[1].kind = "verify"
    /\ ret[1].by_sign
    /\ ret[1].request = ret[1].original
    /\ ret[1].value
    /\ ret[1].secret = Some("token")
    /\ ret[1].request.transaction.amount.amount = 5
    /\ ret[1].request.transaction.metadata # EmptyDict

\* C12: a SignedTransaction that differs from sign(tx) in the signature or
\* in one field of the transaction is not verified.
C12_AlteredFailsVerify ==
    \A p \in Callers :
        (ret[p].kind = "verify" /\ ret[p].by_sign
            /\ ret[p].request # ret[p].original)
        => ~(~ret[p].raised /\ ret[p].value)

\* The step of p is a call of route.
RouteStep(p) ==
    /\ pc[p] = "idle"
    /\ <<ret'[p], request'[p], pc'[p]>> # <<ret[p], request[p], pc[p]>>

StoreUnchanged ==
    /\ ledger_events' = ledger_events
    /\ balances' = balances
    /\ receipts' = receipts

\* C13: route of a SignedTransaction whose signature does not verify fails
\* with the auth error and leaves ledger_events, balances and receipts as
\* they were.
C13_BadSignatureRejected ==
    [][\A p \in Callers :
        (authorizer /\ RouteStep(p) /\ request'[p].is_signed
            /\ verify(registry, request'[p]) # Verified)
        => /\ ret'[p].kind = "error"
           /\ ret'[p].error = "ValueError: Transaction signature invalid"
           /\ pc'[p] = "idle"
           /\ StoreUnchanged]_vars

\* C14: with an authorizer configured, route of a plain Transaction raises
\* the auth-required error before any event is appended, and only a
\* SignedTransaction that verifies is posted.
C14_AuthRequired ==
    /\ [](\A p \in Callers :
            (authorizer /\ local[p].op = "route")
            => (request[p].is_signed /\ local[p].tx = request[p].transaction))
    /\ [][\A p \in Callers :
            (authorizer /\ RouteStep(p))
            => /\ ~request'[p].is_signed
                  => /\ ret'[p].kind = "error"
                     /\ ret'[p].error =
                          "ValueError: SignedTransaction required when authorizer set"
                     /\ pc'[p] = "idle"
                     /\ StoreUnchanged
               /\ pc'[p] # "idle"
                  => /\ request'[p].is_signed
                     /\ verify(registry, request'[p]) = Verified]_vars

\* C14 witness: a signed transaction has been posted and a plain one has
\* been rejected since.
C14_Witness ==
    /\ authorizer
    /\ Len(ledger_events) >= 1
    /\ ~request[1].is_signed
    /\ ret[1].kind = "error"
    /\ ret[1].error = "ValueError: SignedTransaction required when authorizer set"

\* C20: verify never raises and returns false when the sender has no
\* secret in the registry.
C20_VerifyNeverRaises ==
    \A p \in Callers :
        ret[p].kind = "verify"
        => /\ ~ret[p].raised
           /\ ret[p].secret.is_none => ~ret[p].value

(***************************************************************************)
(* What a route call leaves in the store.                                  *)
(***************************************************************************)
\* The change of the balance of account a that a route of tx with the
\* receipt r is to make: the sender pays the gross amount, the receiver and
\* the vaults get the net amount and the two parts of the fee.
ExpectedChange(tx, r, a) ==
    (IF a = tx.from_account THEN -tx.amount.amount ELSE 0)
    + (IF a = tx.to_account THEN r.net_amount.amount ELSE 0)
    + (IF a = r.vault_safety THEN r.safety_amount.amount ELSE 0)
    + (IF a = r.vault_growth THEN r.growth_amount.amount ELSE 0)

BalanceAccountsOf(tx) ==
    DOMAIN balances
        \cup {tx.from_account, tx.to_account, safety_vault, growth_vault, "acct:other"}

\* C15: a successful route of a transaction of amount A from S to R changes
\* balances by exactly -A for S, +net for R, +safety and +growth for the
\* vaults, and changes no other balance; stated for the first route on an
\* empty store (three events built, every balance 0 before).
C15_RouteBalanceEffects ==
    \A p \in Callers :
        (ret[p].kind = "receipt" /\ next_uuid = 3)
        => \A a \in BalanceAccountsOf(request[p].transaction) :
              balance(balances, a)
                  = ExpectedChange(request[p].transaction, ret[p].receipt, a)

\* The components of a route of tx, in the order net, safety, growth: the
\* receiver, the amount and the tags of each.
Components(tx) ==
    <<[to_account |-> tx.to_account, amount |-> Receipt(tx).net_amount,
       tags |-> <<<<"transaction_id", tx.id>>>>],
      [to_account |-> safety_vault, amount |-> Receipt(tx).safety_amount,
       tags |-> <<<<"transaction_id", tx.id>>, <<"vault", "safety">>>>],
      [to_account |-> growth_vault, amount |-> Receipt(tx).growth_amount,
       tags |-> <<<<"transaction_id", tx.id>>, <<"vault", "growth">>>>]>>

NonZeroComponents(tx) ==
    SelectSeq(Components(tx), LAMBDA c : c.amount.amount # 0)

\* The rows of a chain that were built after tx was.
RowsSince(rows, tx) ==
    {i \in 1..Len(rows) : rows[i].created_at[1] > tx.created_at.utc}

\* The rows built after tx are the last rows of the chain and are the first
\* non-zero components of tx, in order.
PostedInOrder(rows, tx) ==
    LET n == Cardinality(RowsSince(rows, tx))
        first == Len(rows) - n
    IN  /\ n <= Len(NonZeroComponents(tx))
        /\ RowsSince(rows, tx) = (first + 1)..Len(rows)
        /\ \A j \in 1..n :
              /\ rows[first + j].from_account = tx.from_account
              /\ rows[first + j].to_account = NonZeroComponents(tx)[j].to_account
              /\ to_decimal(rows[first + j].amount)
                     = NonZeroComponents(tx)[j].amount.amount
              /\ rows[first + j].currency = tx.amount.currency
              /\ rows[first + j].metadata_json
                     = [kind |-> "obj", pairs |-> NonZeroComponents(tx)[j].tags]

\* The step of p is the return of its route call with a receipt.
RouteReturns(p) ==
    /\ local[p].op = "route"
    /\ pc'[p] = "idle"
    /\ ret'[p].kind = "receipt"

\* C16: with no other writer, the rows a route(tx) appends are exactly the
\* non-zero components among net, safety, growth, contiguous and in that
\* order, each tagged with tx.id: 3 rows for 100.00, 2 for 0.99 and 1 for
\* 0.01 at the default policy.
C16_RouteRowsInOrder ==
    /\ [](\A p \in Callers :
            local[p].op = "route" => PostedInOrder(ledger_events, local[p].tx))
    /\ [][\A p \in Callers :
            RouteReturns(p)
            => LET tx == local[p].tx
                   n == Cardinality(RowsSince(ledger_events', tx))
               IN  /\ PostedInOrder(ledger_events', tx)
                   /\ n = Len(NonZeroComponents(tx))
                   /\ (fee_rate = 10 /\ safety_share = 500)
                      => /\ tx.amount.amount = 100000 => n = 3
                         /\ tx.amount.amount = 990 => n = 2
                         /\ tx.amount.amount = 10 => n = 1]_vars

\* C16 witness: 0.99 has been routed at the default policy after an earlier
\* route, and the chain has grown by its net and safety rows.
C16_Witness ==
    /\ fee_rate = 10
    /\ safety_share = 500
    /\ ret[1].kind = "receipt"
    /\ ret[1].receipt.gross_amount.amount = 990
    /\ Len(ledger_events) >= 3
    /\ ledger_events[Len(ledger_events)].to_account = safety_vault
    /\ ledger_events[Len(ledger_events) - 1].amount = 98

\* C17: apply of an event of amount 0 is a no-op: the rows, the accounts
\* that have a balance and every balance stay as they are and no error is
\* raised, in the sqlite ledger and in the in-memory ledger.
C17_ZeroEventNoOp ==
    [][\A p \in Callers :
        (pc[p] \in {"apply", "ledger_apply"} /\ local'[p] # local[p]
            /\ local[p].queue[1].amount.amount = 0)
        => /\ ledger_events' = ledger_events
           /\ balances' = balances
           /\ mem_events' = mem_events
           /\ mem_balances' = mem_balances
           /\ pc'[p] \in {"idle", "apply"}
           /\ ret'[p].kind # "error"]_vars

\* C17 witness: each ledger holds one event, and a third apply (the third
\* event built) has returned since and left no row in either.
C17_Witness ==
    /\ Len(ledger_events) = 1
    /\ Len(mem_events) = 1
    /\ {ledger_events[1].event_id, mem_events[1].id} = {1, 2}
    /\ next_uuid = 3
    /\ pc[1] = "idle"
    /\ ret[1].kind = "returned"

(***************************************************************************)
(* Receipts.                                                               *)
(***************************************************************************)
ReceiptRows(table, id) == {r \in table : r.transaction_id = id}

\* The step of p is save_receipt of the receipt p holds, and it writes.
SaveStep(p) ==
    /\ pc[p] = "idle"
    /\ ret[p].kind = "receipt"
    /\ receipts' # receipts

\* C18: after save_receipt(r) and a later save_receipt(r') of the same
\* transaction_id the receipts table holds exactly one row of that id, and
\* its body is that of r'; no row of another id changes.
C18_LastReceiptWins ==
    /\ [](\A r \in receipts :
            Cardinality(ReceiptRows(receipts, r.transaction_id)) = 1)
    /\ [][\A p \in Callers :
            SaveStep(p)
            => /\ ReceiptRows(receipts', ret[p].receipt.transaction_id)
                    = {[transaction_id |-> ret[p].receipt.transaction_id,
                        receipt_json |-> receipt_json(ret[p].receipt),
                        created_at |-> isoformat(ret[p].receipt.created_at)]}
               /\ \A id \in ReceiptIds \ {ret[p].receipt.transaction_id} :
                      ReceiptRows(receipts', id) = ReceiptRows(receipts, id)]_vars

\* C18 witness: the only row of the table is the receipt of a second route
\* of t1, of another amount than the first and built later.
C18_Witness ==
    /\ Cardinality(receipts) = 1
    /\ next_uuid = 6
    /\ ret[1].kind = "receipt"
    /\ \E r \in receipts :
          /\ r.transaction_id = "t1"
          /\ r.receipt_json = receipt_json(ret[1].receipt)
          /\ r.created_at[1] = 3
          /\ \E i \in Rows :
                /\ ledger_events[i].metadata_json.pairs[1] = <<"transaction_id", "t1">>
                /\ ledger_events[i].created_at[1] <= 3
                /\ to_decimal(ledger_events[i].amount)
                       # ret[1].receipt.net_amount.amount

\* C19: get_receipt(r.transaction_id) after save_receipt(r) returns a
\* receipt equal to r in every field, for every receipt route returns, and
\* get_receipt of an id that was never saved returns none.
C19_ReceiptRoundTrip ==
    /\ [](\A p \in Callers :
            (ret[p].kind = "get_receipt"
                /\ ReceiptRows(receipts, ret[p].id) = {})
            => ~ret[p].value.found)
    /\ [][\A p \in Callers :
            SaveStep(p)
            => get_receipt(receipts', ret[p].receipt.transaction_id)
                   = [found |-> TRUE, raised |-> FALSE,
                      receipt |-> ret[p].receipt]]_vars

\* C19 witness: get_receipt has returned the saved receipt of a gross
\* amount of 0.005 with metadata, and the table holds no row of t3.
C19_Witness ==
    /\ ret[1].kind = "get_receipt"
    /\ ret[1].value.found
    /\ ret[1].value.receipt.gross_amount.amount = 5
    /\ ret[1].value.receipt.net_amount.amount = 10
    /\ ~ret[1].value.receipt.metadata.is_none
    /\ ReceiptRows(receipts, "t3") = {}

(***************************************************************************)
(* The registry and the accounts table.                                    *)
(***************************************************************************)
\* The signature of req is the MAC of its transaction under the secret the
\* registry holds for the sender.
MatchesRegistry(reg, req) ==
    LET sender == req.transaction.from_account
    IN  /\ sender \in DOMAIN reg
        /\ reg[sender] # ""
        /\ req.signature =
               [mac |-> [key |-> reg[sender],
                         payload |-> canonical_transaction_payload(req.transaction)],
                flipped |-> 0, ascii |-> TRUE]

\* The step of p is a call of route: it goes on to its first apply, or it
\* raises before.
RouteCall(p) ==
    /\ pc[p] = "idle"
    /\ \/ local'[p].op = "route"
       \/ /\ ret'[p].kind = "error"
          /\ ret'[p].at = "idle"
          /\ (ret[p].kind # "error" \/ ret'[p] # ret[p]
                  \/ request'[p] # request[p])

\* C29: the registry alone decides verification: verify returns true, and
\* route with an authorizer posts, only for a signature that matches the
\* secret the registry holds for the sender, whatever the accounts table
\* holds; a sender that has a row in the accounts table only is rejected
\* as an unknown sender.
C29_RegistryDecides ==
    /\ [](\A p \in Callers :
            ret[p].kind = "verify" =>
                ((~ret[p].raised /\ ret[p].value)
                    <=> /\ ~not_secret(ret[p].secret)
                        /\ ret[p].request.signature =
                               compute_signature(ret[p].secret.value,
                                                 ret[p].request.transaction)))
    /\ [][\A p \in Callers :
            (authorizer /\ RouteCall(p))
            => /\ pc'[p] # "idle" => MatchesRegistry(registry, request'[p])
               /\ request'[p].transaction.from_account \notin DOMAIN registry
                  => /\ ret'[p].kind = "error"
                     /\ ret'[p].error = "ValueError: Transaction signature invalid"
                     /\ pc'[p] = "idle"
                     /\ StoreUnchanged]_vars

\* C29 witness: the sender has a row in the accounts table and no secret in
\* the registry, and route has rejected its transaction signed with the
\* secret of that row.
C29_Witness ==
    /\ authorizer
    /\ "acct:alice" \in DOMAIN accounts
    /\ "acct:alice" \notin DOMAIN registry
    /\ request[1].is_signed
    /\ request[1].signature
           = compute_signature(accounts["acct:alice"].secret, request[1].transaction)
    /\ ret[1].kind = "error"
    /\ ret[1].error = "ValueError: Transaction signature invalid"

(***************************************************************************)
(* The canonical payload of transactions written in different ways.        *)
(***************************************************************************)
\* Decimal(text) of a literal of `digits` fractional digits (1, 1.0, 1.00,
\* 1.000 are the coefficients 1, 10, 100, 1000 with 0, 1, 2, 3 digits):
\* its value, in mills.
decimal_of(literal) ==
    CASE literal.digits = 0 -> literal.coefficient * 1000
      [] literal.digits = 1 -> literal.coefficient * 100
      [] literal.digits = 2 -> literal.coefficient * 10
      [] OTHER -> literal.coefficient

\* dict(items) of key-value pairs in insertion order.
dict_of(items) == json_loads([kind |-> "obj", pairs |-> items])

\* Amounts 1.0, 1.00 and 1.004 as they can be written.
AmountLiterals ==
    {[coefficient |-> 10, digits |-> 1], [coefficient |-> 100, digits |-> 2],
     [coefficient |-> 1004, digits |-> 3]}

\* Metadata: none, and the same two pairs inserted in either order.
MetadataItems ==
    {<<>>, <<<<"purpose", "x">>, <<"vault", "y">>>>,
     <<<<"vault", "y">>, <<"purpose", "x">>>>}

\* created_at: instant 0 in UTC and at offset +1, and instant 1 in UTC.
CreatedAts ==
    {[utc |-> 0, offset |-> 0], [utc |-> 0, offset |-> 1],
     [utc |-> 1, offset |-> 0]}

WrittenTransactions ==
    {[amount |-> a, metadata |-> m, created_at |-> d] :
        a \in AmountLiterals, m \in MetadataItems, d \in CreatedAts}

\* The Transaction a caller builds from what it wrote.
Built(w) ==
    Transaction("t1", "acct:alice", "acct:merchant",
                Money(decimal_of(w.amount), DEFAULT_CURRENCY), w.created_at,
                dict_of(w.metadata))

\* a == b of two Transaction values (dataclass equality): Decimal and dict
\* compare by value, aware datetimes by instant.
TransactionEq(a, b) ==
    /\ a.id = b.id
    /\ a.from_account = b.from_account
    /\ a.to_account = b.to_account
    /\ a.amount = b.amount
    /\ a.created_at.utc = b.created_at.utc
    /\ a.metadata = b.metadata

\* canonical_transaction_payload and _compute_signature (under secret "s1")
\* of two transactions.
CallCanonicalPayload ==
    /\ \E wa \in WrittenTransactions, wb \in WrittenTransactions :
          call' = [fn |-> "canonical_transaction_payload",
                   written_a |-> wa, written_b |-> wb,
                   a |-> Built(wa), b |-> Built(wb),
                   payload_a |-> canonical_transaction_payload(Built(wa)),
                   payload_b |-> canonical_transaction_payload(Built(wb)),
                   signature_a |-> compute_signature("s1", Built(wa)),
                   signature_b |-> compute_signature("s1", Built(wb))]
    /\ UNCHANGED <<ledger_events, balances, receipts, accounts, fee_rate,
                   safety_share, pc, local, txn, writer, ret, clock, next_uuid,
                   registry, authorizer, request, mem_events, mem_balances,
                   engine_vars>>

CanonicalNext == CallCanonicalPayload

CanonicalSpec == Init /\ [][CanonicalNext]_vars

\* C31: two transactions that denote the same values, differing only in the
\* insertion order of metadata, in trailing zeros of the amount or in the
\* timezone in which the same created_at instant is written, have the same
\* canonical payload and the same signature.
C31_CanonicalPayloadNormalised ==
    (call.fn = "canonical_transaction_payload" /\ TransactionEq(call.a, call.b))
        => /\ call.payload_a = call.payload_b
           /\ call.signature_a = call.signature_b

\* The part of C31 the code does: with created_at written in one timezone,
\* insertion order and trailing zeros do not change payload or signature.
C31_OrderAndZerosNormalised ==
    (/\ call.fn = "canonical_transaction_payload"
     /\ TransactionEq(call.a, call.b)
     /\ call.a.created_at.offset = call.b.created_at.offset)
        => /\ call.payload_a = call.payload_b
           /\ call.signature_a = call.signature_b

(***************************************************************************)
(* FeeldEngine (feeld_engine.py): amounts are integer counts of cents.     *)
(*   argument     [is_int, value]: an int, or a number of another type     *)
(*                (a float) of that value.                                 *)
(*   timestamp    the reading of the clock by datetime.utcnow().           *)
(***************************************************************************)
IntArg(v) == [is_int |-> TRUE, value |-> v]

FloatArg(v) == [is_int |-> FALSE, value |-> v]

\* Arguments of send: 1.5 (a float), -1.00, 0, 0.01, 0.99, 1.00, 2.00, 3.00.
SendAmounts ==
    {FloatArg(150), IntArg(-100), IntArg(0), IntArg(1), IntArg(99),
     IntArg(100), IntArg(200), IntArg(300)}

\* Arguments of withdraw_growth_vault.
WithdrawAmounts == {FloatArg(1), IntArg(-1), IntArg(0), IntArg(1), IntArg(2)}

Authorizations == {"", "multi-sig"}

\* Mutant of send_fee: a minimum fee of one cent.
send_fee_minimum(amount) ==
    IF amount \div 100 = 0 THEN 1 ELSE amount \div 100

\* fee = amount // 100.
send_fee(amount) == amount \div 100

\* safety_contribution = (fee + 1) // 2.
safety_contribution(fee) == (fee + 1) \div 2

\* growth_contribution = fee // 2.
growth_contribution(fee) == fee \div 2

\* The record send builds after it has updated the vaults.
send_record(amount, timestamp, safety_total, growth_total) ==
    [timestamp |-> timestamp,
     amount |-> amount,
     fee |-> send_fee(amount),
     safety_vault_contribution |-> safety_contribution(send_fee(amount)),
     growth_vault_contribution |-> growth_contribution(send_fee(amount)),
     safety_vault_total |-> safety_total,
     growth_vault_total |-> growth_total,
     net_amount |-> amount - send_fee(amount)]

\* FeeldEngine.send.
Send(p) ==
    /\ pc[p] = "idle"
    /\ \E amount \in SendAmounts :
          /\ call' = [fn |-> "send", amount |-> amount, authorization |-> ""]
          /\ IF ~amount.is_int
             THEN /\ RaiseIn(p, "send", "TypeError")
                  /\ UNCHANGED <<engine_vars, clock>>
             ELSE IF amount.value <= 0
             THEN /\ RaiseIn(p, "send", "ValueError")
                  /\ UNCHANGED <<engine_vars, clock>>
             ELSE LET fee == send_fee(amount.value)
                      safety == _safety_vault + safety_contribution(fee)
                      growth == _growth_vault + growth_contribution(fee)
                      record == send_record(amount.value, clock + 1, safety, growth)
                  IN  /\ Len(_transaction_history) < MaxSends
                      /\ _safety_vault' = safety
                      /\ _growth_vault' = growth
                      /\ _transaction_history' = Append(_transaction_history, record)
                      /\ clock' = clock + 1
                      /\ ret' = [ret EXCEPT ![p] =
                                    [kind |-> "record", record |-> record]]
    /\ UNCHANGED <<ledger_events, balances, receipts, accounts, fee_rate,
                   safety_share, pc, local, txn, writer, next_uuid,
                   registry, authorizer, request, mem_events, mem_balances>>

\* Mutant of withdraw_rejects: the authorization is not looked at.
withdraw_rejects_unauthorized(amount, authorization, growth) ==
    IF ~amount.is_int THEN "TypeError"
    ELSE IF amount.value <= 0 THEN "ValueError: Amount must be positive"
    ELSE IF amount.value > growth
    THEN "ValueError: Insufficient funds in Growth Vault"
    ELSE "ok"

\* The four checks of withdraw_growth_vault, in order: "ok", or the error
\* raised.
withdraw_rejects(amount, authorization, growth) ==
    IF ~amount.is_int THEN "TypeError"
    ELSE IF amount.value <= 0 THEN "ValueError: Amount must be positive"
    ELSE IF amount.value > growth
    THEN "ValueError: Insufficient funds in Growth Vault"
    ELSE IF authorization = ""
    THEN "ValueError: Authorization required for Growth Vault withdrawal"
    ELSE "ok"

\* FeeldEngine.withdraw_growth_vault.
WithdrawGrowthVault(p) ==
    /\ pc[p] = "idle"
    /\ \E amount \in WithdrawAmounts, authorization \in Authorizations :
          /\ call' = [fn |-> "withdraw_growth_vault", amount |-> amount,
                      authorization |-> authorization]
          /\ IF withdraw_rejects(amount, authorization, _growth_vault) # "ok"
             THEN /\ RaiseIn(p, "withdraw_growth_vault",
                             withdraw_rejects(amount, authorization, _growth_vault))
                  /\ UNCHANGED <<_growth_vault, clock>>
             ELSE /\ _growth_vault' = _growth_vault - amount.value
                  /\ clock' = clock + 1
                  /\ ret' = [ret EXCEPT ![p] =
                        [kind |-> "withdrawal",
                         withdrawal |->
                            [timestamp |-> clock + 1,
                             type |-> "growth_vault_withdrawal",
                             amount |-> amount.value,
                             growth_vault_total |-> _growth_vault - amount.value,
                             authorization |-> authorization]]]
    /\ UNCHANGED <<ledger_events, balances, receipts, accounts, fee_rate,
                   safety_share, pc, local, txn, writer, next_uuid,
                   registry, authorizer, request, mem_events, mem_balances,
                   _safety_vault, _transaction_history>>

EngineNext == Send(1) \/ WithdrawGrowthVault(1)

EngineSpec == Init /\ [][EngineNext]_vars

\* C32: both vaults are append-only: no send and no withdraw_growth_vault
\* call lowers the safety vault total or the growth vault total.
C32_VaultsAppendOnly ==
    [][/\ _safety_vault' >= _safety_vault
       /\ _growth_vault' >= _growth_vault]_vars

\* The part of C32 the code does: the safety vault total is never lowered.
C32_SafetyVaultAppendOnly == [][_safety_vault' >= _safety_vault]_vars

\* A send of a positive int has returned its record.
SendReturned(p) ==
    /\ call.fn = "send"
    /\ ret[p].kind = "record"

\* C33: every send of a positive integer amount of cents returns a record
\* whose fee is 1% of the amount in whole cents, rounded down (no minimum:
\* the fee of an amount below 1.00 is 0), whose safety and growth
\* contributions add up to the fee, the safety contribution being the
\* larger by one cent when the fee is odd and equal when it is even.
C33_OnePercentFeeSplit ==
    /\ (call.fn = "send" /\ call.amount.is_int /\ call.amount.value > 0)
          => /\ SendReturned(1)
             /\ ret[1].record.amount = call.amount.value
    /\ \A i \in 1..Len(_transaction_history) :
          LET r == _transaction_history[i]
          IN  /\ 100 * r.fee <= r.amount
              /\ r.amount < 100 * (r.fee + 1)
              /\ r.safety_vault_contribution + r.growth_vault_contribution = r.fee
              /\ r.safety_vault_contribution - r.growth_vault_contribution
                     = r.fee % 2
              /\ r.net_amount = r.amount - r.fee

\* C33 witness: a send of 3.00 has been charged 3 cents, 2 to the safety
\* vault and 1 to the growth vault, after a send of 0.99 was charged nothing.
C33_Witness ==
    /\ SendReturned(1)
    /\ ret[1].record.amount = 300
    /\ ret[1].record.fee = 3
    /\ ret[1].record.safety_vault_contribution = 2
    /\ ret[1].record.growth_vault_contribution = 1
    /\ Len(_transaction_history) = 2
    /\ _transaction_history[1].amount = 99
    /\ _transaction_history[1].fee = 0

\* A call of send or withdraw_growth_vault returns (it does not raise).
EngineReturns(p) ==
    /\ ret'[p].kind \in {"record", "withdrawal"}
    /\ clock' # clock

\* C34: every operation that changes a vault total is logged: each
\* successful send or withdraw_growth_vault call appends one record to the
\* transaction history, and the totals of the latest record are the
\* current vault totals.
C34_EveryOperationLogged ==
    /\ [](Len(_transaction_history) > 0 =>
             LET latest == _transaction_history[Len(_transaction_history)]
             IN  /\ latest.safety_vault_total = _safety_vault
                 /\ latest.growth_vault_total = _growth_vault)
    /\ [][EngineReturns(1) =>
             /\ Len(_transaction_history') = Len(_transaction_history) + 1
             /\ SubSeq(_transaction_history', 1, Len(_transaction_history))
                    = _transaction_history]_vars

\* The part of C34 the code does: each successful send appends its record,
\* which holds the vault totals of that moment.
C34_SendsLogged ==
    [][(EngineReturns(1) /\ ret'[1].kind = "record") =>
          /\ _transaction_history' = Append(_transaction_history, ret'[1].record)
          /\ ret'[1].record.safety_vault_total = _safety_vault'
          /\ ret'[1].record.growth_vault_total = _growth_vault']_vars

RECURSIVE SumSafetyContributions(_)
SumSafetyContributions(history) ==
    IF history = <<>> THEN 0
    ELSE history[1].safety_vault_contribution
             + SumSafetyContributions(Tail(history))

\* The withdraw_growth_vault call of this step is one the code must reject.
WithdrawMustReject ==
    /\ call'.fn = "withdraw_growth_vault"
    /\ \/ ~call'.amount.is_int
       \/ call'.amount.value <= 0
       \/ call'.amount.value > _growth_vault
       \/ call'.authorization = ""

\* The withdraw_growth_vault call of this step raises.
WithdrawRaises(p) ==
    /\ call'.fn = "withdraw_growth_vault"
    /\ ret'[p].kind = "error"

\* C40: the growth vault total is never negative; the safety vault total
\* is the sum of the safety contributions of all sends; a
\* withdraw_growth_vault call of a non-integer or non-positive amount, of
\* an amount above the growth total, or with an empty authorization
\* raises, and a call that raises leaves both vault totals and the
\* transaction history unchanged.
C40_RejectedWithdrawChangesNothing ==
    /\ [](/\ _growth_vault >= 0
          /\ _safety_vault = SumSafetyContributions(_transaction_history))
    /\ [][/\ WithdrawMustReject => WithdrawRaises(1)
          /\ WithdrawRaises(1) => UNCHANGED engine_vars]_vars

\* C40 witness: with 2 cents in the growth vault, a withdrawal of 1 cent
\* with an empty authorization has raised.
C40_Witness ==
    /\ call.fn = "withdraw_growth_vault"
    /\ call.amount = IntArg(1)
    /\ call.authorization = ""
    /\ ret[1].kind = "error"
    /\ ret[1].at = "withdraw_growth_vault"
    /\ _growth_vault = 2
    /\ _safety_vault = 4
    /\ Len(_transaction_history) = 3

(***************************************************************************)
(* Balances as a view of the rows.                                         *)
(***************************************************************************)
\* Events of amount 0, 0.005 and 0.01, from alice to herself and to the
\* merchant.
RoundingEvents ==
    {LedgerEvent("acct:alice", r, Money(a, DEFAULT_CURRENCY), EmptyDict) :
        r \in {"acct:alice", "acct:merchant"}, a \in {0, 5, 10}}

\* One caller applies events of whole and half cents.
DerivedNext == Apply(1, RoundingEvents) \/ ApplySteps(1)

DerivedSpec == Init /\ [][DerivedNext]_vars

\* C35: balances is a derived view of the event log: an account has a
\* balance row exactly when some row names it, and its stored balance is
\* the sum of the stored amounts of the rows crediting it minus the sum of
\* the stored amounts of the rows debiting it.
C35_BalancesDerivedFromRows ==
    /\ DOMAIN balances = RowAccounts
    /\ \A a \in DOMAIN balances :
          to_decimal(balances[a]) = RowsEffect(ledger_events, 1, a)

\* The part of C35 the code does: the accounts with a balance row are the
\* accounts the rows name, and when every applied amount is a whole number
\* of cents the balances are the sums of the stored amounts.
C35_WholeCentsDerived ==
    /\ DOMAIN balances = RowAccounts
    /\ (\A i \in Rows : ledger_events[i].amount # 0) =>
          \A a \in DOMAIN balances :
              to_decimal(balances[a]) = RowsEffect(ledger_events, 1, a)

(***************************************************************************)
(* What a signature covers and what route debits.                          *)
(***************************************************************************)
\* Signed transactions of 0.005, 0.01, 0.99 and 1.005 from alice to the
\* merchant.
DebitTransactions ==
    {Transaction("t1", "acct:alice", "acct:merchant", Money(a, DEFAULT_CURRENCY),
                 now_utc(0), EmptyDict) :
        a \in {5, 10, 990, 1005}}

DebitRequests == Signed(DebitTransactions, {"sign"}, {"none"})

\* A router with an authorizer is given transactions signed by sign.
SignedRouteNext ==
    \/ SetSecret
    \/ Route(1, DebitRequests)
    \/ ApplySteps(1)

SignedRouteSpec == AuthInit /\ [][SignedRouteNext]_vars

\* The stored amounts of the rows from i on that were built after tx and
\* debit its sender, summed.
RECURSIVE DebitsSince(_, _, _)
DebitsSince(rows, i, tx) ==
    IF i > Len(rows) THEN 0
    ELSE (IF i \in RowsSince(rows, tx) /\ rows[i].from_account = tx.from_account
          THEN to_decimal(rows[i].amount) ELSE 0)
         + DebitsSince(rows, i + 1, tx)

\* The route call of p has verified a signed transaction and returned.
SignedRouteReturned(p) ==
    /\ authorizer
    /\ pc[p] = "idle"
    /\ ret[p].kind = "receipt"
    /\ request[p].is_signed

\* C36: for every signed transaction route accepts, the amounts its ledger
\* events debit from the sender add up to the two-decimal amount of the
\* canonical payload the signature covers.
C36_DebitIsSignedAmount ==
    \A p \in Callers :
        SignedRouteReturned(p) =>
            DebitsSince(ledger_events, 1, request[p].transaction)
                = to_decimal(canonical_transaction_payload(
                                 request[p].transaction).amount)

\* The part of C36 the code does: the debits of a signed transaction add up
\* to its amount quantised half-up (Decimal.quantize), which is the signed
\* amount except at a tie above an even cent.
C36_DebitIsQuantisedAmount ==
    \A p \in Callers :
        SignedRouteReturned(p) =>
            DebitsSince(ledger_events, 1, request[p].transaction)
                = quantize(request[p].transaction.amount.amount, 1)

(***************************************************************************)
(* A transaction submitted again.                                          *)
(***************************************************************************)
\* Signed transactions of 0.99 and 100.00 under the ids t1 and t2.
ReplayTransactions ==
    {Transaction(id, "acct:alice", "acct:merchant", Money(a, DEFAULT_CURRENCY),
                 now_utc(0), EmptyDict) :
        id \in {"t1", "t2"}, a \in {990, 100000}}

ReplayRequests == Signed(ReplayTransactions, {"sign"}, {"none"})

\* route called again with the argument of the caller's last call, which
\* returned a receipt: the same SignedTransaction, as a client that repeats
\* its POST /transactions sends it.
Resubmit(p) ==
    /\ pc[p] = "idle"
    /\ next_uuid <= MaxRouted
    /\ ret[p].kind = "receipt"
    /\ LET req == request[p]
           tx == req.transaction
       IN  IF RouteAuth(authorizer, registry, req) # "ok"
           THEN /\ Raise(p, RouteAuth(authorizer, registry, req))
                /\ UNCHANGED <<pc, local>>
           ELSE IF RouteRaises(tx)
           THEN /\ Raise(p, "ValueError")
                /\ UNCHANGED <<pc, local>>
           ELSE /\ local' = [local EXCEPT ![p] =
                       [NoLocal EXCEPT !.op = "route", !.tx = tx,
                                       !.queue = RouteEvents(tx)]]
                /\ pc' = [pc EXCEPT ![p] = "apply"]
                /\ ret' = [ret EXCEPT ![p] = [kind |-> "running"]]
    /\ UNCHANGED <<ledger_events, balances, receipts, accounts, fee_rate,
                   safety_share, txn, writer, clock, next_uuid, call,
                   registry, authorizer, request, mem_events, mem_balances,
                   engine_vars>>

\* Signed transactions are routed, their receipts saved, and routed again.
ReplayNext ==
    \/ SetSecret
    \/ Route(1, ReplayRequests)
    \/ Resubmit(1)
    \/ ApplySteps(1)
    \/ SaveReceipt(1)

ReplaySpec == AuthInit /\ [][ReplayNext]_vars

\* The stored amounts of the rows from i on tagged with transaction_id id,
\* summed.
RECURSIVE TaggedSum(_, _, _)
TaggedSum(rows, i, id) ==
    IF i > Len(rows) THEN 0
    ELSE LET metadata == deserialize_metadata(rows[i].metadata_json).value
         IN  (IF "transaction_id" \in DOMAIN metadata
                  /\ metadata["transaction_id"] = id
              THEN to_decimal(rows[i].amount) ELSE 0)
             + TaggedSum(rows, i + 1, id)

\* No call is running and every receipt returned has been saved.
AllSaved ==
    \A p \in Callers :
        /\ pc[p] = "idle"
        /\ ret[p].kind = "receipt" => receipt_row(ret[p].receipt) \in receipts

\* C37: a transaction id is posted at most once: whenever no call is
\* running and the receipts returned are saved, the amounts of the ledger
\* events tagged with a transaction_id sum to the gross_amount of the
\* receipt stored for that id.
C37_PostedAtMostOnce ==
    AllSaved =>
        \A r \in receipts :
            TaggedSum(ledger_events, 1, r.transaction_id)
                = get_receipt(receipts, r.transaction_id).receipt.gross_amount.amount

\* The part of C37 the code does: the first route of an id posts events that
\* sum to the gross amount of its receipt.
C37_FirstRoutePostsGross ==
    (AllSaved /\ next_uuid = 3) =>
        \A r \in receipts :
            TaggedSum(ledger_events, 1, r.transaction_id)
                = get_receipt(receipts, r.transaction_id).receipt.gross_amount.amount

(***************************************************************************)
(* Rows deleted or swapped from outside.                                   *)
(***************************************************************************)
\* The rows left when row i is deleted: the others keep their order.
DeletedRow(rows, i) ==
    [k \in 1..(Len(rows) - 1) |-> IF k < i THEN rows[k] ELSE rows[k + 1]]

\* The rows when the stored contents of rows i and j are exchanged (each
\* primary key keeps its place in ORDER BY id).
SwappedRows(rows, i, j) ==
    [k \in 1..Len(rows) |->
        IF k = i THEN rows[j] ELSE IF k = j THEN rows[i] ELSE rows[k]]

\* The chain can be edited from outside: it has at least two rows, it
\* verifies, nothing has edited it yet and no connection holds the lock.
Editable ==
    /\ writer = 0
    /\ call = NoCall
    /\ Len(ledger_events) >= 2
    /\ verify_chain(ledger_events) = <<TRUE, "none">>

\* DELETE FROM ledger_events of one row other than the last.
DeleteRow ==
    /\ Editable
    /\ \E i \in 1..(Len(ledger_events) - 1) :
          /\ ledger_events' = DeletedRow(ledger_events, i)
          /\ call' = [fn |-> "delete_row", i |-> i, j |-> i]
    /\ UNCHANGED <<balances, receipts, accounts, fee_rate, safety_share,
                   pc, local, txn, writer, ret, clock, next_uuid,
                   registry, authorizer, request, mem_events, mem_balances,
                   engine_vars>>

\* The contents of two rows exchanged.
SwapRows ==
    /\ Editable
    /\ \E i \in Rows, j \in Rows :
          /\ i < j
          /\ ledger_events' = SwappedRows(ledger_events, i, j)
          /\ call' = [fn |-> "swap_rows", i |-> i, j |-> j]
    /\ UNCHANGED <<balances, receipts, accounts, fee_rate, safety_share,
                   pc, local, txn, writer, ret, clock, next_uuid,
                   registry, authorizer, request, mem_events, mem_balances,
                   engine_vars>>

\* The stored prev_hash of one row overwritten: the row then fails both
\* checks of verify_chain.
OverwritePrevHash ==
    /\ Editable
    /\ \E i \in Rows :
          \E v \in HashValues(ledger_events[i]) \ {ledger_events[i].prev_hash} :
              /\ ledger_events' = [ledger_events EXCEPT ![i].prev_hash = v]
              /\ call' = [fn |-> "overwrite_prev_hash", i |-> i, j |-> i]
    /\ UNCHANGED <<balances, receipts, accounts, fee_rate, safety_share,
                   pc, local, txn, writer, ret, clock, next_uuid,
                   registry, authorizer, request, mem_events, mem_balances,
                   engine_vars>>

\* One caller applies events and verifies the chain while a row is deleted,
\* two rows are swapped or a prev_hash is overwritten from outside.
ChainEditNext ==
    \/ Apply(1, FewEvents)
    \/ ApplySteps(1)
    \/ DeleteRow
    \/ SwapRows
    \/ OverwritePrevHash
    \/ VerifyChain(1)

ChainEditSpec == Init /\ [][ChainEditNext]_vars

\* C38: for a chain of at least two rows built by apply, deleting a row
\* other than the last, or swapping the contents of two rows, makes
\* verify_chain return (false, prev_hash mismatch), also after later
\* applies; prev_hash is checked before event_hash: a row that fails both
\* checks is reported as prev_hash mismatch.
C38_DeleteOrSwapDetected ==
    call.fn \in {"delete_row", "swap_rows", "overwrite_prev_hash"} =>
        verify_chain(ledger_events) = <<FALSE, "prev_hash mismatch">>

\* C38 witness: the first and the third row of a chain of three have been
\* swapped and verify_chain has returned (false, prev_hash mismatch).
C38_Witness ==
    /\ call = [fn |-> "swap_rows", i |-> 1, j |-> 3]
    /\ Len(ledger_events) = 3
    /\ ledger_events[1].event_id = 3
    /\ ledger_events[3].event_id = 1
    /\ ret[1] = [kind |-> "verify_chain",
                 value |-> <<FALSE, "prev_hash mismatch">>]

(***************************************************************************)
(* The two ledgers given the same events.                                  *)
(***************************************************************************)
\* Events of amount 0, 0.005 and 0.01, with and without metadata.
BothEvents ==
    {LedgerEvent("acct:alice", r, Money(a, DEFAULT_CURRENCY), m) :
        r \in {"acct:alice", "acct:merchant"}, a \in {0, 5, 10},
        m \in EventMetadata}

\* A caller builds one event and applies it to the in-memory Ledger, then
\* calls SqliteLedger.apply with the same event.
ApplyBoth(p, events) ==
    /\ pc[p] = "idle"
    /\ next_uuid < MaxEvents
    /\ \E e \in events :
          LET event == [id |-> next_uuid + 1, created_at |-> now,
                        from_account |-> e.from_account,
                        to_account |-> e.to_account,
                        amount |-> e.amount, metadata |-> e.metadata]
          IN  /\ mem_events' = ledger_events_after(mem_events, event)
              /\ mem_balances' = ledger_balances_after(mem_balances, event)
              /\ local' = [local EXCEPT ![p] =
                     [NoLocal EXCEPT !.op = "apply", !.queue = <<e>>]]
    /\ pc' = [pc EXCEPT ![p] = "apply"]
    /\ ret' = [ret EXCEPT ![p] = [kind |-> "running"]]
    /\ UNCHANGED <<ledger_events, balances, receipts, accounts, fee_rate,
                   safety_share, txn, writer, clock, next_uuid, call,
                   registry, authorizer, request, engine_vars>>

\* Both ledgers are given the same events; no statement of apply fails.
BothNext ==
    \/ ApplyBoth(1, BothEvents)
    \/ ApplyReadTail(1)
    \/ ApplyInsert(1)
    \/ ApplyUpdateFrom(1)
    \/ ApplyUpdateTo(1)
    \/ ApplyCommit(1)

BothSpec == Init /\ [][BothNext]_vars

\* SqliteLedger.events() of the committed rows.
StoredEvents == [i \in Rows |-> row_to_event(ledger_events[i])]

\* Both ledgers report the same balance for every account and the same list
\* of events: same order, accounts, amounts and metadata.
SameReports ==
    /\ \A a \in DOMAIN balances \cup DOMAIN mem_balances \cup {"acct:other"} :
          balance(balances, a)
              = (IF a \in DOMAIN mem_balances THEN mem_balances[a] ELSE 0)
    /\ Len(StoredEvents) = Len(mem_events)
    /\ \A i \in 1..Len(mem_events) :
          /\ StoredEvents[i].from_account = mem_events[i].from_account
          /\ StoredEvents[i].to_account = mem_events[i].to_account
          /\ StoredEvents[i].amount = mem_events[i].amount
          /\ StoredEvents[i].metadata = mem_events[i].metadata

\* C39: the in-memory Ledger and the SqliteLedger are interchangeable: after
\* any sequence of apply calls given to both, they report the same balances
\* and the same events, none of them an applied event of amount 0.
C39_LedgersInterchangeable ==
    pc[1] = "idle" =>
        /\ SameReports
        /\ \A i \in 1..Len(mem_events) : mem_events[i].amount.amount # 0

\* The part of C39 the code does: both ledgers drop the events of amount 0
\* and hold one event for each of the others, in the same order with the
\* same ids, accounts and metadata, and they report the same balances and
\* amounts as long as every amount applied is a whole number of cents.
C39_WholeCentsInterchangeable ==
    pc[1] = "idle" =>
        /\ Len(StoredEvents) = Len(mem_events)
        /\ \A i \in 1..Len(mem_events) :
              /\ StoredEvents[i].id = mem_events[i].id
              /\ StoredEvents[i].from_account = mem_events[i].from_account
              /\ StoredEvents[i].to_account = mem_events[i].to_account
              /\ StoredEvents[i].metadata = mem_events[i].metadata
              /\ mem_events[i].amount.amount # 0
        /\ (\A i \in 1..Len(mem_events) : Quantised(mem_events[i].amount.amount))
              => SameReports

====
